---------------------------- MODULE Spec2Model ----------------------------
(***************************************************************************)
(* spotctl: the "cloudspaces create" command.                              *)
(*                                                                         *)
(* The repository holds three revisions of cloudspacesCreateCmd.RunE:      *)
(*   "signal"  src/unnamed/part_008:1279-1484  (cancellable context,       *)
(*             signal goroutine, rollback = DeleteCloudspace only)         *)
(*   "ledger"  src/unnamed/part_008:282-509    (createdResources ledger,   *)
(*             cleanupResources closure plus a deferred error handler)     *)
(*   "defer"   src/unnamed/part_011:164-835    (cleanupStack run by a      *)
(*             deferred function)                                          *)
(* The variable impl says which revision a behaviour runs.                 *)
(*                                                                         *)
(* Strings that the code inspects character by character (bid prices) are  *)
(* sequences of one-character strings; strings that are only compared      *)
(* (names, regions) are TLA+ strings.  The answers typed at the wizard's   *)
(* name prompt, which the code trims, are sequences of characters too.     *)
(***************************************************************************)
EXTENDS Integers, Sequences, FiniteSets, TLC

(***************************************************************************)
(* Bounds of the model.                                                    *)
(***************************************************************************)
MaxSpot == 2
MaxOnDemand == 2

\* the most pools, of both kinds together, in one request
MaxPools == 3

\* the most delete calls that fail in one rollback
MaxDeleteFailures == 1

(***************************************************************************)
(* Character helpers.                                                      *)
(***************************************************************************)
Digits == <<"0", "1", "2", "3", "4", "5", "6", "7", "8", "9">>

IsDigit(c) == \E d \in 1..10 : Digits[d] = c

DigitVal(c) == (CHOOSE d \in 1..10 : Digits[d] = c) - 1

RECURSIVE IntToChars(_)
IntToChars(n) ==
    IF n < 10 THEN <<Digits[n + 1]>>
    ELSE IntToChars(n \div 10) \o <<Digits[(n % 10) + 1]>>

RECURSIVE DigitsValue(_)
DigitsValue(s) ==
    IF s = <<>> THEN 0
    ELSE DigitsValue(SubSeq(s, 1, Len(s) - 1)) * 10 + DigitVal(s[Len(s)])

AllDigits(s) == \A k \in 1..Len(s) : IsDigit(s[k])

Contains(s, c) == \E k \in 1..Len(s) : s[k] = c

IndexOf(s, c) == CHOOSE k \in 1..Len(s) : s[k] = c /\ \A j \in 1..(k - 1) : s[j] # c

\* strings.ReplaceAll(s, c, "")
RECURSIVE RemoveAll(_, _)
RemoveAll(s, c) ==
    IF s = <<>> THEN <<>>
    ELSE IF Head(s) = c THEN RemoveAll(Tail(s), c)
    ELSE <<Head(s)>> \o RemoveAll(Tail(s), c)

\* strings.TrimRight(s, c) for a one-character cutset
RECURSIVE TrimRight(_, _)
TrimRight(s, c) ==
    IF s # <<>> /\ s[Len(s)] = c THEN TrimRight(SubSeq(s, 1, Len(s) - 1), c) ELSE s

RECURSIVE TrimLeft(_, _)
TrimLeft(s, c) ==
    IF s # <<>> /\ Head(s) = c THEN TrimLeft(Tail(s), c) ELSE s

\* a TrimSpace that leaves the string as it is
NoTrim(s) == s

\* strings.TrimSpace, the blank being the only white space of the alphabet
TrimSpace(s) == TrimLeft(TrimRight(s, " "), " ")

\* strings.TrimSuffix(s, c)
TrimSuffix(s, c) ==
    IF s # <<>> /\ s[Len(s)] = c THEN SubSeq(s, 1, Len(s) - 1) ELSE s

RECURSIVE Repeat(_, _)
Repeat(c, n) == IF n <= 0 THEN <<>> ELSE <<c>> \o Repeat(c, n - 1)

(***************************************************************************)
(* strconv.ParseFloat(s, 64) on the plain decimal grammar                  *)
(*   [+|-] digits [ . digits ]  |  [+|-] . digits                          *)
(* The value is kept exactly, as an integer number of 1/10000 (Scale):     *)
(* the price strings of the model have at most FracDigits fractional       *)
(* digits and no exponent, "inf" or "nan" spelling.                        *)
(***************************************************************************)
FracDigits == 4

RECURSIVE Pow10(_)
Pow10(n) == IF n = 0 THEN 1 ELSE 10 * Pow10(n - 1)

Scale == Pow10(FracDigits)

Unsigned(s) == IF s # <<>> /\ Head(s) \in {"+", "-"} THEN Tail(s) ELSE s

IntPart(u) == IF Contains(u, ".") THEN SubSeq(u, 1, IndexOf(u, ".") - 1) ELSE u

FracPart(u) ==
    IF Contains(u, ".") THEN SubSeq(u, IndexOf(u, ".") + 1, Len(u)) ELSE <<>>

ParseFloatOk(s) ==
    LET u == Unsigned(s) IN
        /\ AllDigits(IntPart(u))
        /\ AllDigits(FracPart(u))
        /\ Len(IntPart(u)) + Len(FracPart(u)) >= 1

\* the parsed value, in units of 1/Scale; meaningful when ParseFloatOk(s)
ParseFloatVal(s) ==
    LET u == Unsigned(s)
        f == FracPart(u)
        mag == DigitsValue(IntPart(u)) * Scale
                 + DigitsValue(f \o Repeat("0", FracDigits - Len(f)))
    IN  IF s # <<>> /\ Head(s) = "-" THEN 0 - mag ELSE mag


(***************************************************************************)
(* fmt.Sprintf("%.3f", val): val rounded to thousandths.  The argument is  *)
(* the float64 that ParseFloat returned, the one nearest to the decimal.   *)
(* A decimal half way between the thousandths m and m + 1 is n / 2000 with *)
(* n = 2m + 1; its float64 is the integer nearest to n * 2^s / 125 over    *)
(* 2^(s + 4), with s + 4 the shift that gives 53 significant bits.  The    *)
(* float64 lies above the decimal, and %.3f gives m + 1, when the          *)
(* remainder of n * 2^s by 125 is more than half of 125; a remainder of 0  *)
(* means the decimal is a float64, and the tie goes to the even digit.     *)
(***************************************************************************)
RECURSIVE Pow2Mod125(_)
Pow2Mod125(n) == IF n = 0 THEN 1 ELSE (2 * Pow2Mod125(n - 1)) % 125

\* the k with d * 2^k <= n < d * 2^(k + 1), for n >= d
RECURSIVE Log2Floor(_, _)
Log2Floor(n, d) == IF n < 2 * d THEN 0 ELSE 1 + Log2Floor(n, 2 * d)

\* the least j with n * 2^j >= 2000, for 0 < n < 2000
RECURSIVE UpShift(_)
UpShift(n) == IF n >= 2000 THEN 0 ELSE 1 + UpShift(2 * n)

\* the binary exponent of n / 2000
BinaryExponent(n) == IF n >= 2000 THEN Log2Floor(n, 2000) ELSE 0 - UpShift(n)

TieRoundsUp(m) ==
    LET n == 2 * m + 1
        s == 48 - BinaryExponent(n)
        r == ((n % 125) * Pow2Mod125(s)) % 125
    IN  IF r = 0 THEN m % 2 = 1 ELSE 2 * r > 125

Thousandths(val) ==
    LET unit == Scale \div 1000
        m == val \div unit
        r == val % unit
    IN  IF 2 * r > unit THEN m + 1
        ELSE IF 2 * r < unit THEN m
        ELSE IF TieRoundsUp(m) THEN m + 1 ELSE m

Pad3(n) == LET d == IntToChars(n) IN Repeat("0", 3 - Len(d)) \o d

Format3(val) ==
    LET m == Thousandths(val)
    IN  IntToChars(m \div 1000) \o <<".">> \o Pad3(m % 1000)

(***************************************************************************)
(* fmt.Sprintf("%g", val) for 0.0001 <= val < 1000000: the shortest        *)
(* decimal, without exponent.                                              *)
(***************************************************************************)
FormatG(val) ==
    LET ip == IntToChars(val \div Scale)
        fd == IntToChars(val % Scale)
        fr == TrimRight(Repeat("0", FracDigits - Len(fd)) \o fd, "0")
    IN  IF fr = <<>> THEN ip ELSE ip \o <<".">> \o fr

(***************************************************************************)
(* validateBidPrice: [ok, out]; out is the formatted price when ok.        *)
(***************************************************************************)
ValidateBidPrice(bidPrice) ==
    IF ~ParseFloatOk(bidPrice) THEN [ok |-> FALSE, out |-> <<>>]
    ELSE LET val == ParseFloatVal(bidPrice)
             formatted == TrimSuffix(TrimRight(Format3(val), "0"), ".")
             whole == val % Scale = 0
         IN  IF val <= 0 THEN [ok |-> FALSE, out |-> <<>>]
             ELSE IF ~Contains(formatted, ".") /\ whole
                  THEN [ok |-> TRUE, out |-> formatted \o <<".", "0", "0", "0">>]
             ELSE IF Contains(formatted, ".")
                  THEN [ok |-> TRUE,
                        out |-> formatted \o Repeat("0", 3 - Len(FracPart(formatted)))]
             ELSE [ok |-> TRUE, out |-> formatted]

(***************************************************************************)
(* getBidPrice: [ok, out].                                                 *)
(***************************************************************************)
\* the clean-up scan: digits and the first decimal point only
RECURSIVE CleanNum(_, _)
CleanNum(s, decimalFound) ==
    IF s = <<>> THEN <<>>
    ELSE IF IsDigit(Head(s)) THEN <<Head(s)>> \o CleanNum(Tail(s), decimalFound)
    ELSE IF Head(s) = "." /\ ~decimalFound THEN <<".">> \o CleanNum(Tail(s), TRUE)
    ELSE CleanNum(Tail(s), decimalFound)

GetBidPrice(priceStr) ==
    LET trimmed == TrimSpace(RemoveAll(priceStr, "$"))
        clean == CleanNum(trimmed, FALSE)
        fail == [ok |-> FALSE, out |-> <<>>]
        Fmt(val) == IF val <= 0 THEN fail ELSE [ok |-> TRUE, out |-> FormatG(val)]
    IN  IF priceStr = <<>> THEN fail
        ELSE IF trimmed = <<>> THEN fail
        ELSE IF ParseFloatOk(trimmed) THEN Fmt(ParseFloatVal(trimmed))
        ELSE IF clean = <<>> THEN fail
        ELSE IF ~ParseFloatOk(clean) THEN fail
        ELSE Fmt(ParseFloatVal(clean))

(***************************************************************************)
(* The command's inputs.  A run takes one revision of RunE, one command    *)
(* line and one request as the operator gave it (file content or flag      *)
(* values; the wizard's answers are given step by step).  The pool         *)
(* descriptors are drawn from two small sets that hold a well-formed pool, *)
(* a pool whose price rounds to zero thousandths, a pool without price,    *)
(* pools with and without a name and pools with a desired count of zero.   *)
(***************************************************************************)
Impls == {"signal", "ledger", "defer"}

Modes == {"File", "Flags", "Wizard"}

\* the command lines of the model: no flag at all, --org alone, --config,
\* --config with --name, and the value flags (--name, --region,
\* --spot-nodepool, --ondemand-nodepool) that carry the request
CommandKinds == {"none", "org", "file", "fileAndName", "values"}

\* the (revision, command line) pairs that are modelled: every command line
\* for the signal and defer revisions, --config for the ledger revision
Entries ==
    ({"signal", "defer"} \X CommandKinds) \cup {<<"ledger", "file">>}

PriceGood == <<"0", ".", "0", "8">>
PriceTiny == <<"0", ".", "0", "0", "0", "4">>
PriceNone == <<>>

PriceNotANumber == <<"a", "b", "c">>

SpotSpecs ==
    {[Name |-> "spot-a", BidPrice |-> PriceGood, Desired |-> 1],
     [Name |-> "",       BidPrice |-> PriceTiny, Desired |-> 2],
     [Name |-> "spot-c", BidPrice |-> PriceNone, Desired |-> 1],
     [Name |-> "",       BidPrice |-> PriceGood, Desired |-> 0]}

\* what a user of the wizard can also type for a spot pool
WizardSpotSpecs ==
    SpotSpecs \cup {[Name |-> "", BidPrice |-> PriceNotANumber, Desired |-> 1]}

\* the bidprice strings of the runs that stop after validation: decimal
\* strings with or without a sign or a currency symbol
PriceSigns == {<<>>, <<"-">>, <<"$">>}

PriceInts == {<<"0">>, <<"1">>}

PriceFracs == UNION {[1..n -> {"0", "4", "5"}] : n \in 1..FracDigits}

PriceInputs ==
    {sg \o i : sg \in PriceSigns, i \in PriceInts}
    \cup {sg \o i \o <<".">> \o f : sg \in PriceSigns, i \in PriceInts, f \in PriceFracs}
    \cup {<<>>, <<"a", "b", "c">>}

\* every bidprice string a request or a wizard answer can hold, and every
\* string a pool can store: those, and what validateBidPrice makes of them
RequestPrices == PriceInputs \cup {sp.BidPrice : sp \in WizardSpotSpecs}

StoredPrices ==
    RequestPrices \cup {ValidateBidPrice(price).out : price \in RequestPrices}

\* validateBidPrice on each of these strings
ValidatedBidPrice == [price \in StoredPrices |-> ValidateBidPrice(price)]

OnDemandSpecs ==
    {[Name |-> "od-a", Desired |-> 1],
     [Name |-> "",     Desired |-> 2],
     [Name |-> "od-c", Desired |-> 0]}

SeqsUpTo(S, n) == UNION {[1..k -> S] : k \in 0..n}

NameInputs == {"", "cs1"}

RegionInputs == {"", "mars-1", "us-east-iad-1"}

ValidRegionInputs == {"us-east-iad-1"}

OrgInput == "org1"

\* Unknown: the kind of pool flag whose first key=value descriptor also
\* holds a key outside the recognized ones (as in "...,zone=a"), if any.
\* Malformed: the kind of pool flag whose first value, given before the
\* descriptors of Spot or OnDemand, is not a list of key=value pairs (as in
\* "serverclass"), if any
Requests ==
    {r \in [Name : NameInputs, Org : {OrgInput}, Region : RegionInputs,
             Spot : SeqsUpTo(SpotSpecs, MaxSpot),
             OnDemand : SeqsUpTo(OnDemandSpecs, MaxOnDemand),
             Unknown : {"none"}, Malformed : {"none"}, CfgRegion : {""}] :
        Len(r.Spot) + Len(r.OnDemand) <= MaxPools}

\* command lines complete in name and region with such a descriptor
UnknownKeyRequests ==
    {[r EXCEPT !.Unknown = "spot"] :
        r \in {q \in Requests : q.Name # "" /\ q.Region \in ValidRegionInputs
                                 /\ q.Spot # <<>>}}
    \cup
    {[r EXCEPT !.Unknown = "ondemand"] :
        r \in {q \in Requests : q.Name # "" /\ q.Region \in ValidRegionInputs
                                 /\ q.OnDemand # <<>>}}

\* command lines complete in name and region with a value that does not parse
MalformedRequests ==
    {[r EXCEPT !.Malformed = kind] :
        r \in {q \in Requests : q.Name # "" /\ q.Region \in ValidRegionInputs},
        kind \in {"spot", "ondemand"}}

\* requests without a region and with one pool at most, run with a CLI
\* configuration that holds a region, valid or not (CfgRegion; the
\* configuration's organization is OrgInput, always set)
DefaultRegionRequests ==
    {[r EXCEPT !.CfgRegion = region] :
        r \in {q \in Requests : q.Region = "" /\ Len(q.Spot) + Len(q.OnDemand) <= 1},
        region \in RegionInputs \ {""}}

\* what the value flags hold when none of them is given
EmptyRequest ==
    [Name |-> "", Org |-> OrgInput, Region |-> "", Spot |-> <<>>, OnDemand |-> <<>>,
     Unknown |-> "none", Malformed |-> "none", CfgRegion |-> ""]

\* the value flags that are set: those given a non-empty value
ValueFlags(in) ==
    (IF in.Name # "" THEN {"name"} ELSE {})
    \cup (IF in.Region # "" THEN {"region"} ELSE {})
    \cup (IF in.Spot # <<>> \/ in.Malformed = "spot" THEN {"spot-nodepool"} ELSE {})
    \cup (IF in.OnDemand # <<>> \/ in.Malformed = "ondemand"
          THEN {"ondemand-nodepool"} ELSE {})

\* the set of flags set on the command line; with --config the request is
\* the file's content, otherwise it is what the value flags hold
CommandLine(kind, in) ==
    IF kind = "none" THEN {}
    ELSE IF kind = "org" THEN {"org"}
    ELSE IF kind = "file" THEN {"config"}
    ELSE IF kind = "fileAndName" THEN {"config", "name"}
    ELSE ValueFlags(in)

InputsOf(kind) ==
    IF kind \in {"none", "org"} THEN {EmptyRequest}
    ELSE IF kind = "values"
    THEN Requests \cup UnknownKeyRequests \cup MalformedRequests
         \cup DefaultRegionRequests
    ELSE Requests \cup DefaultRegionRequests

(***************************************************************************)
(* The state.                                                              *)
(*   impl, flags, input the run's revision, the flags set on its command   *)
(*                      line and the request they or the file carry        *)
(*   mode               the source the run took the request from           *)
(*   wiz                the wizard: the step under way, its state, the     *)
(*                      re-prompts of the name step and the last answer    *)
(*                      typed at it, why the node-pool step last turned an *)
(*                      answer down, whether a cancel key was pressed, the *)
(*                      key that ended the final confirmation, the steps   *)
(*                      that ran                                           *)
(*   interactive        isInteractiveMode(cmd)                             *)
(*   params             *createCloudspaceParams (spotnodepools and         *)
(*                      ondemandnodepools in the defer revision)           *)
(*   cloudspace         the defer revision's cloudspace pointer            *)
(*   pc                 the position of RunE                               *)
(*   idx                the index of the pool loop under way               *)
(*   cur                the name given to the pool whose create call is    *)
(*                      in flight                                          *)
(*   ctxDone            the cancellable context was cancelled              *)
(*   calls              every remote call issued so far, in order          *)
(*   createdResources   the ledger: cloudspaceCreated, nodePoolsCreated    *)
(*                      (createdCloudspace, cleanupStack in the defer      *)
(*                      revision)                                          *)
(*   err                the function-scope variable err is non-nil         *)
(*   ret                what RunE returns; returned once pc = "done"       *)
(*   uuids              the number of uuid names generated                 *)
(*   callsAtSignal      history: the calls issued when the signal arrived  *)
(***************************************************************************)
VARIABLES impl, flags, mode, input, interactive, params, cloudspace, pc, idx,
          cur, ctxDone, calls, createdResources, err, ret, uuids,
          callsAtSignal, wiz

vars == <<impl, flags, mode, input, interactive, params, cloudspace, pc, idx,
          cur, ctxDone, calls, createdResources, err, ret, uuids,
          callsAtSignal, wiz>>

NoParams ==
    [Name |-> "", Org |-> "", Region |-> "",
     SpotNodePools |-> <<>>, OnDemandNodePools |-> <<>>]

\* no interactive model
NoWizard ==
    [step |-> 0, state |-> "idle", reprompts |-> 0, typed |-> <<>>, rejected |-> "",
     cancelKey |-> FALSE, confirmKey |-> "", ran |-> <<>>]

NilCloudspace == [nil |-> TRUE, Name |-> "", Org |-> ""]

Running == [kind |-> "none", what |-> ""]

\* a return value: the kind of error (or "ok") and the pool name or the
\* validation rule the error message carries
Outcome(kind, what) == [kind |-> kind, what |-> what]

Init ==
    /\ \E e \in Entries :
          /\ impl = e[1]
          /\ input \in InputsOf(e[2])
          /\ flags = CommandLine(e[2], input)
          \* the configuration's region is read where it can end up in the
          \* request: the defer revision only shows it as the default of
          \* its region prompt, and the wizard always returns a region
          /\ input.CfgRegion # "" => (impl \in {"signal", "ledger"} /\ flags # {})
    /\ mode = "none"
    /\ wiz = NoWizard
    /\ interactive = FALSE
    /\ params = NoParams
    /\ cloudspace = NilCloudspace
    /\ pc = "start"
    /\ idx = 0
    /\ cur = ""
    /\ ctxDone = FALSE
    /\ calls = <<>>
    /\ createdResources = [cloudspaceCreated |-> FALSE, nodePoolsCreated |-> <<>>]
    /\ err = FALSE
    /\ ret = Running
    /\ uuids = 0
    /\ callsAtSignal = <<>>

(***************************************************************************)
(* Remote calls.  A call record keeps the operation, the organization and  *)
(* resource name arguments in the order the API takes them, the context    *)
(* it was given ("ctx" the cancellable one, "background", "cleanupCtx"),   *)
(* whether that context was still live when the call was issued, the bid   *)
(* price and desired count of a pool create, and the result.               *)
(***************************************************************************)
Call(op, org, name, ctx, price, desired, res) ==
    [op |-> op, org |-> org, name |-> name, ctx |-> ctx,
     live |-> ~(ctx = "ctx" /\ ctxDone),
     price |-> price, desired |-> desired, res |-> res]

Res(ok) == IF ok THEN "ok" ELSE "err"

\* the result of the call in flight (the last one issued) arrives
Resolve(cs, ok) == [cs EXCEPT ![Len(cs)].res = Res(ok)]

\* uuid.New().String(): the n-th name generated in this run
Uuid(n) == "uuid-" \o ToString(n)

\* a select that never takes the ctx.Done() branch
CtxNeverDone == FALSE

\* select { case <-ctx.Done(): ... default: ... }
CtxDone == ctxDone

(***************************************************************************)
(* Parameter acquisition (signal and ledger revisions).                    *)
(***************************************************************************)
\* isInteractiveMode: no --config and no flag visited (set) at all
IsInteractiveMode(fl) == IF "config" \in fl THEN FALSE ELSE fl = {}

\* the source RunE takes: the wizard when interactive, otherwise
\* loadParamsFromFlags, which reads the file when --config is given
SourceOf(fl) ==
    IF IsInteractiveMode(fl) THEN "Wizard"
    ELSE IF "config" \in fl THEN "File"
    ELSE "Flags"

\* loadParamsFromFlags, --config given: the file's content as it is
FileParams(in) ==
    [Name |-> in.Name, Org |-> in.Org, Region |-> in.Region,
     SpotNodePools |-> in.Spot, OnDemandNodePools |-> in.OnDemand]

\* loadParamsFromFlags, a pool descriptor: a fresh uuid name, desired
\* defaulting to 1 when missing, not a number or not positive; the pool is
\* built by looking up the keys org, cloudspace, serverclass, bidprice and
\* desired in the parsed map, whatever other keys the map holds; a value
\* that parseNodepoolParams fails on is logged as a warning and skipped
FlagDesired(d) == IF d <= 0 THEN 1 ELSE d

FlagsParams(in, u) ==
    [Name |-> in.Name, Org |-> in.Org, Region |-> in.Region,
     SpotNodePools |->
        [k \in 1..Len(in.Spot) |->
            [Name |-> Uuid(u + k), BidPrice |-> in.Spot[k].BidPrice,
             Desired |-> FlagDesired(in.Spot[k].Desired)]],
     OnDemandNodePools |->
        [k \in 1..Len(in.OnDemand) |->
            [Name |-> Uuid(u + Len(in.Spot) + k),
             Desired |-> FlagDesired(in.OnDemand[k].Desired)]]]

\* a pool check that never finds the lists empty
PoolsNeverMissing(p) == FALSE

NoPools(p) == Len(p.SpotNodePools) = 0 /\ Len(p.OnDemandNodePools) = 0

\* stepAddNodePools: an answer with a node count below 1 or a rejected bid
\* price is asked again and appends nothing
\* a node-pool step that takes every answer
WizardPoolAlwaysAccepted(raw) == TRUE

WizardSpotAccepted(raw) == raw.Desired >= 1 /\ ValidatedBidPrice[raw.BidPrice].ok

WizardOnDemandAccepted(raw) == raw.Desired >= 1

(***************************************************************************)
(* validateCreateParams.                                                   *)
(***************************************************************************)
ValidRegions ==
    {"hkg-hkg-1", "us-central-ord-1", "aus-syd-1", "uk-lon-1", "us-east-iad-1",
     "us-central-dfw-1", "us-central-dfw-2", "us-west-sjc-1"}

\* an isValidRegion that accepts every region
AnyRegionValid(region) == TRUE

IsValidRegion(region) == region \in ValidRegions

\* the revisions that check the region against the fixed set
ChecksRegionSet(rev) == rev = "signal"

SpotPriceBad(pool) == pool.BidPrice = <<>> \/ ~ValidatedBidPrice[pool.BidPrice].ok

\* a validateCreateParams that accepts every request
ValidateNothing(p, inter, rev) == ""

\* a validateCreateParams that looks at the region before the name
ValidateRegionFirst(p, inter, rev) ==
    IF inter THEN ""
    ELSE IF p.Region = "" THEN "region"
    ELSE IF ChecksRegionSet(rev) /\ ~IsValidRegion(p.Region) THEN "regionInvalid"
    ELSE IF p.Name = "" THEN "name"
    ELSE IF NoPools(p) THEN "pools"
    ELSE IF \E k \in 1..Len(p.SpotNodePools) : SpotPriceBad(p.SpotNodePools[k])
         THEN "bidPrice"
    ELSE IF \E k \in 1..Len(p.OnDemandNodePools) : p.OnDemandNodePools[k].Desired <= 0
         THEN "desired"
    ELSE ""

\* the rule that fails first, "" when none does
ValidateCreateParams(p, inter, rev) ==
    IF inter THEN ""
    ELSE IF p.Name = "" THEN "name"
    ELSE IF p.Region = "" THEN "region"
    ELSE IF ChecksRegionSet(rev) /\ ~IsValidRegion(p.Region) THEN "regionInvalid"
    ELSE IF NoPools(p) THEN "pools"
    ELSE IF \E k \in 1..Len(p.SpotNodePools) : SpotPriceBad(p.SpotNodePools[k])
         THEN "bidPrice"
    ELSE IF \E k \in 1..Len(p.OnDemandNodePools) : p.OnDemandNodePools[k].Desired <= 0
         THEN "desired"
    ELSE ""

\* the number of spot pools the bid price loop went through without
\* returning: those before the first pool it rejects, all when there is none
SpotPoolsPassed(p) ==
    LET bad == {k \in 1..Len(p.SpotNodePools) : SpotPriceBad(p.SpotNodePools[k])}
    IN  IF bad = {} THEN Len(p.SpotNodePools)
        ELSE (CHOOSE k \in bad : \A j \in bad : k <= j) - 1

\* params.SpotNodePools[i].BidPrice, _ = validateBidPrice(pool.BidPrice):
\* the parameters as validateCreateParams leaves them when it returns rule;
\* the price of a pool is stored in place as soon as the pool has passed
ValidatedParams(p, inter, rule) ==
    IF inter \/ rule \in {"name", "region", "regionInvalid", "pools"} THEN p
    ELSE [p EXCEPT !.SpotNodePools =
            [k \in 1..Len(p.SpotNodePools) |->
                IF k <= SpotPoolsPassed(p)
                THEN [p.SpotNodePools[k] EXCEPT
                        !.BidPrice = ValidatedBidPrice[p.SpotNodePools[k].BidPrice].out]
                ELSE p.SpotNodePools[k]]]

\* Set default values: the organization and the region of the CLI
\* configuration where the request has none
WithDefaults(p, in) ==
    [p EXCEPT !.Org = IF @ = "" THEN in.Org ELSE @,
              !.Region = IF @ = "" THEN in.CfgRegion ELSE @]

(***************************************************************************)
(* RunE up to the first remote mutation (signal and ledger revisions).     *)
(***************************************************************************)
Return(outcome) ==
    /\ ret' = outcome
    /\ pc' = "done"

\* the signal goroutine: <-sigCh; cancel()
Signal ==
    /\ impl = "signal"
    /\ pc # "done"
    /\ ~ctxDone
    /\ ctxDone' = TRUE
    /\ callsAtSignal' = calls
    /\ UNCHANGED <<impl, flags, mode, wiz, input, interactive, params, cloudspace, pc, idx,
                   cur, calls, createdResources, err, ret, uuids>>

Acquire ==
    /\ pc = "start"
    /\ impl \in {"signal", "ledger"}
    /\ interactive' = IsInteractiveMode(flags)
    /\ mode' = SourceOf(flags)
    /\ IF IsInteractiveMode(flags)
       THEN /\ params' = NoParams
            /\ wiz' = [NoWizard EXCEPT !.step = 1, !.state = "running"]
            /\ pc' = "wizard"
            /\ UNCHANGED <<ret, uuids>>
       ELSE /\ \E good \in BOOLEAN :
                 LET file == "config" \in flags
                     p == IF file THEN FileParams(input) ELSE FlagsParams(input, uuids)
                     acquired == IF file THEN good ELSE ~NoPools(p)
                 IN  IF acquired
                     THEN /\ params' = p
                          /\ uuids' = IF file THEN uuids
                                      ELSE uuids + Len(p.SpotNodePools)
                                                 + Len(p.OnDemandNodePools)
                          /\ pc' = "validate"
                          /\ ret' = ret
                     ELSE /\ Return(Outcome("load", IF file THEN "file" ELSE "noPools"))
                          /\ UNCHANGED <<params, uuids>>
            /\ wiz' = wiz
    /\ UNCHANGED <<impl, flags, input, callsAtSignal, cloudspace, idx, cur, ctxDone,
                   calls, createdResources, err>>

(***************************************************************************)
(* The wizard: collectInteractiveInput runs the six steps of               *)
(* initInteractiveModel in order and stops at the first step that returns  *)
(* an error or sets model.cancelled.  A prompt ends with the enter key     *)
(* (an answer), a cancel key (ctrl+c, q or esc) or an error of the prompt  *)
(* program.  The Kubernetes version and the CNI are fields of params the   *)
(* model does not carry.  The name step's history (reprompts, and typed,   *)
(* which holds the last answer) is that of the interactive model and ends  *)
(* with it.                                                                *)
(***************************************************************************)
\* a step list that asks for the node pools before the name
WizardStepsPoolsFirst ==
    <<"stepSelectRegion", "stepAddNodePools", "stepSelectKubernetesVersion",
      "stepSelectCNI", "stepEnterName", "stepSummaryAndConfirm">>

\* initInteractiveModel: m.steps
WizardSteps ==
    <<"stepSelectRegion", "stepEnterName", "stepSelectKubernetesVersion",
      "stepSelectCNI", "stepAddNodePools", "stepSummaryAndConfirm">>

\* the number of empty names the operator types at most
MaxNameRetries == 2

PromptKeys == {"enter", "cancel", "error"}

\* the keys that flip the answer shown by a confirmation prompt without
\* ending it (left or h, right or l), as the operator may press them before
\* the key that ends the prompt
Toggles == {<<>>, <<"left">>, <<"right">>, <<"left", "right">>}

\* what the operator presses at a confirmation prompt: toggles, then the key
\* that ends it; or the prompt program fails
ConfirmKeys ==
    {t \o <<k>> : t \in Toggles, k \in {"y", "n", "enter", "cancel"}}
    \cup {<<"error">>}

\* the key that ended the prompt
EndKey(keys) == keys[Len(keys)]

\* a confirmation that returns its default whatever the answer
ConfirmDefault(defaultYes, keys) == defaultYes

\* internal.Confirm: ConfirmModel.Result() whatever key ended the prompt;
\* each toggle flips the result, y and n set it, enter and the cancel keys
\* leave it as it is
Confirm(defaultYes, keys) ==
    LET shown == IF (Len(keys) - 1) % 2 = 1 THEN ~defaultYes ELSE defaultYes
    IN  IF EndKey(keys) = "y" THEN TRUE
        ELSE IF EndKey(keys) = "n" THEN FALSE
        ELSE shown

\* what the operator types at the name prompt
NameAnswers == {<<>>, <<" ">>, <<" ", "c", "s", "1", " ">>}

\* the regions offered by ListRegions or typed at the fallback prompt
WizardRegions == RegionInputs \ {""}

\* the catalogue's minimum bid price, the default of the bid price prompt
MinBidPrice == PriceGood

\* the string held by a sequence of characters
RECURSIVE Join(_)
Join(s) == IF s = <<>> THEN "" ELSE Head(s) \o Join(Tail(s))

\* the steps entered so far, once step i is entered
WizardEnter(i) ==
    IF wiz.ran # <<>> /\ wiz.ran[Len(wiz.ran)] = WizardSteps[i] THEN wiz.ran
    ELSE Append(wiz.ran, WizardSteps[i])

\* the step returned an error: collectInteractiveInput returns it
WizardFail(i, cancelKey) ==
    /\ wiz' = [wiz EXCEPT !.state = "failed", !.ran = WizardEnter(i),
                          !.cancelKey = @ \/ cancelKey]
    /\ Return(Outcome("load", "failed"))

\* the step set model.cancelled: "interactive prompt cancelled"
WizardCancel(i) ==
    /\ wiz' = [wiz EXCEPT !.state = "cancelled", !.ran = WizardEnter(i),
                          !.cancelKey = TRUE]
    /\ Return(Outcome("load", "cancelled"))

\* the step asks again: the same step is still under way
WizardAgain(i) ==
    /\ wiz' = [wiz EXCEPT !.ran = WizardEnter(i)]
    /\ UNCHANGED <<pc, ret>>

\* the step returned nil with neither model.cancelled nor model.err set:
\* the loop goes on to the next step
WizardAdvance(i, cancelKey) ==
    /\ wiz' = [wiz EXCEPT !.step = i + 1, !.ran = WizardEnter(i),
                          !.cancelKey = @ \/ cancelKey]
    /\ UNCHANGED <<pc, ret>>

WizardAt(name) ==
    /\ pc = "wizard"
    /\ wiz.step \in 1..Len(WizardSteps)
    /\ WizardSteps[wiz.step] = name

StepSelectRegion ==
    /\ WizardAt("stepSelectRegion")
    /\ \E listed \in BOOLEAN, key \in PromptKeys, region \in RegionInputs :
         IF key = "error"
         THEN WizardFail(wiz.step, FALSE) /\ UNCHANGED params
         ELSE IF listed
         THEN \* ListRegions returned regions: a selection prompt
              IF key = "cancel"
              THEN WizardCancel(wiz.step) /\ UNCHANGED params
              ELSE /\ region \in WizardRegions
                   /\ params' = [params EXCEPT !.Region = region]
                   /\ WizardAdvance(wiz.step, FALSE)
         ELSE \* ListRegions failed or returned nothing: a text prompt
              IF key = "cancel"
              THEN WizardFail(wiz.step, TRUE) /\ UNCHANGED params
              ELSE IF region = ""
              THEN WizardAgain(wiz.step) /\ UNCHANGED params
              ELSE /\ params' = [params EXCEPT !.Region = region]
                   /\ WizardAdvance(wiz.step, FALSE)
    /\ UNCHANGED <<impl, flags, mode, input, interactive, cloudspace, idx, cur,
                   ctxDone, calls, createdResources, err, uuids, callsAtSignal>>

StepEnterName ==
    /\ WizardAt("stepEnterName")
    /\ \E key \in PromptKeys, answer \in NameAnswers :
         IF key = "error"
         THEN WizardFail(wiz.step, FALSE) /\ UNCHANGED params
         ELSE IF key = "cancel"
         THEN WizardCancel(wiz.step) /\ UNCHANGED params
         ELSE LET val == TrimSpace(answer)
              IN  IF val # <<>>
                  THEN /\ params' = [params EXCEPT !.Name = Join(val)]
                       /\ wiz' = [wiz EXCEPT !.step = @ + 1,
                                             !.ran = WizardEnter(wiz.step),
                                             !.typed = <<answer>>]
                       /\ UNCHANGED <<pc, ret>>
                  ELSE /\ wiz.reprompts < MaxNameRetries
                       /\ wiz' = [wiz EXCEPT !.reprompts = @ + 1,
                                             !.ran = WizardEnter(wiz.step),
                                             !.typed = <<answer>>]
                       /\ UNCHANGED <<params, pc, ret>>
    /\ UNCHANGED <<impl, flags, mode, input, interactive, cloudspace, idx, cur,
                   ctxDone, calls, createdResources, err, uuids, callsAtSignal>>

\* stepSelectKubernetesVersion and stepSelectCNI: a selection prompt
StepSelect(name) ==
    /\ WizardAt(name)
    /\ \E key \in PromptKeys :
         IF key = "error" THEN WizardFail(wiz.step, FALSE)
         ELSE IF key = "cancel" THEN WizardCancel(wiz.step)
         ELSE WizardAdvance(wiz.step, FALSE)
    /\ UNCHANGED <<impl, flags, mode, input, interactive, params, cloudspace, idx,
                   cur, ctxDone, calls, createdResources, err, uuids,
                   callsAtSignal>>

StepSelectKubernetesVersion == StepSelect("stepSelectKubernetesVersion")

StepSelectCNI == StepSelect("stepSelectCNI")

\* one pass of the loop of stepAddNodePools: the prompts for the pool type,
\* the server class, the node count and (spot) the bid price, then "Add
\* another node pool?" with default no
\* a node-pool step that returns before anything was appended
StepAddNodePoolsLeftEmpty ==
    /\ WizardAt("stepAddNodePools")
    /\ WizardAdvance(wiz.step, FALSE)
    /\ UNCHANGED <<impl, flags, mode, input, interactive, params, cloudspace, idx,
                   cur, ctxDone, calls, createdResources, err, uuids,
                   callsAtSignal>>

StepAddNodePools ==
    /\ WizardAt("stepAddNodePools")
    /\ \/ \* a prompt program fails, or ListServerClasses does
          /\ WizardFail(wiz.step, FALSE)
          /\ UNCHANGED <<params, uuids>>
       \/ \* a cancel key at the pool type, server class, node count or bid
          \* price prompt
          /\ WizardCancel(wiz.step)
          /\ UNCHANGED <<params, uuids>>
       \/ \E isSpot \in BOOLEAN :
           \E raw \in IF isSpot THEN WizardSpotSpecs ELSE OnDemandSpecs :
             LET typed == IF isSpot /\ raw.BidPrice = <<>> THEN MinBidPrice
                          ELSE IF isSpot THEN raw.BidPrice ELSE <<>>
                 accepted ==
                     IF isSpot
                     THEN WizardSpotAccepted([raw EXCEPT !.BidPrice = typed])
                     ELSE WizardOnDemandAccepted(raw)
                 added ==
                     IF isSpot
                     THEN [params EXCEPT !.SpotNodePools =
                             Append(@, [Name |-> Uuid(uuids + 1),
                                        BidPrice |-> ValidatedBidPrice[typed].out,
                                        Desired |-> raw.Desired])]
                     ELSE [params EXCEPT !.OnDemandNodePools =
                             Append(@, [Name |-> Uuid(uuids + 1),
                                        Desired |-> raw.Desired])]
             IN  IF ~accepted
                 THEN /\ wiz' = [wiz EXCEPT !.ran = WizardEnter(wiz.step),
                                            !.rejected = IF raw.Desired < 1
                                                         THEN "count" ELSE "price"]
                      /\ UNCHANGED <<pc, ret, params, uuids>>
                 ELSE /\ IF isSpot THEN Len(params.SpotNodePools) < MaxSpot
                         ELSE Len(params.OnDemandNodePools) < MaxOnDemand
                      /\ Len(params.SpotNodePools) + Len(params.OnDemandNodePools) < MaxPools
                      /\ params' = added
                      /\ uuids' = uuids + 1
                      /\ \E more \in ConfirmKeys :
                           IF EndKey(more) = "error" THEN WizardFail(wiz.step, FALSE)
                           ELSE IF Confirm(FALSE, more)
                           THEN /\ wiz' = [wiz EXCEPT
                                            !.ran = WizardEnter(wiz.step),
                                            !.cancelKey = @ \/ (EndKey(more) = "cancel")]
                                /\ UNCHANGED <<pc, ret>>
                           ELSE WizardAdvance(wiz.step, EndKey(more) = "cancel")
    /\ UNCHANGED <<impl, flags, mode, input, interactive, cloudspace, idx, cur,
                   ctxDone, calls, createdResources, err, callsAtSignal>>

\* stepSummaryAndConfirm: "Create cloudspace with the above
\* configuration?" with default yes
StepSummaryAndConfirm ==
    /\ WizardAt("stepSummaryAndConfirm")
    /\ \E key \in ConfirmKeys :
         IF EndKey(key) = "error"
         THEN /\ wiz' = [wiz EXCEPT !.state = "failed", !.confirmKey = EndKey(key),
                                    !.ran = WizardEnter(wiz.step)]
              /\ Return(Outcome("load", "failed"))
         ELSE IF Confirm(TRUE, key)
         THEN /\ wiz' = [wiz EXCEPT !.step = @ + 1, !.state = "completed",
                                    !.confirmKey = EndKey(key),
                                    !.ran = WizardEnter(wiz.step),
                                    !.reprompts = 0, !.typed = <<>>,
                                    !.rejected = "",
                                    !.cancelKey = @ \/ (EndKey(key) = "cancel")]
              /\ pc' = "validate"
              /\ ret' = ret
         ELSE /\ wiz' = [wiz EXCEPT !.state = "refused", !.confirmKey = EndKey(key),
                                    !.ran = WizardEnter(wiz.step),
                                    !.cancelKey = @ \/ (EndKey(key) = "cancel")]
              /\ Return(Outcome("load", "refused"))
    /\ UNCHANGED <<impl, flags, mode, input, interactive, params, cloudspace, idx,
                   cur, ctxDone, calls, createdResources, err, uuids,
                   callsAtSignal>>

Validate ==
    /\ pc = "validate"
    /\ impl \in {"signal", "ledger"}
    /\ LET p == WithDefaults(params, input)
           rule == ValidateCreateParams(p, interactive, impl)
       IN  /\ params' = ValidatedParams(p, interactive, rule)
           /\ IF rule # ""
              THEN Return(Outcome("validation", rule))
              ELSE /\ pc' = "createCloudspace"
                   /\ ret' = ret
    /\ UNCHANGED <<impl, flags, mode, wiz, input, callsAtSignal, interactive, cloudspace, idx, cur, ctxDone,
                   calls, createdResources, err, uuids>>

(***************************************************************************)
(* The signal revision: creation with a cancellable context.               *)
(***************************************************************************)
NoPrice == <<>>

\* validateBidPrice, then getBidPrice on its result
SagaBidPrice(price) ==
    LET v == ValidateBidPrice(price)
    IN  IF ~v.ok THEN v ELSE GetBidPrice(v.out)

\* the same, on each string a pool can store
SagaBidPriceOf == [price \in StoredPrices |-> SagaBidPrice(price)]

\* if pool.Name == "" { pool.Name = uuid.NewString() }
PoolName(pool, u) == IF pool.Name = "" THEN Uuid(u + 1) ELSE pool.Name

DeleteCloudspaceCall(ctx, res) ==
    Call("DeleteCloudspace", params.Org, params.Name, ctx, NoPrice, 0, res)

\* the check before the cloudspace is created: the select on ctx.Done()
CreateCloudspaceCheck ==
    /\ pc = "createCloudspace"
    /\ impl = "signal"
    /\ IF CtxDone
       THEN Return(Outcome("cancelled", ""))
       ELSE /\ pc' = "createCloudspaceCall"
            /\ ret' = ret
    /\ UNCHANGED <<impl, flags, mode, wiz, input, callsAtSignal, interactive, params, cloudspace, idx, cur,
                   ctxDone, calls, createdResources, err, uuids>>

\* the request is built and CreateCloudspace(ctx, ..) is called, whatever
\* has become of ctx since the check
CreateCloudspaceIssue ==
    /\ pc = "createCloudspaceCall"
    /\ impl = "signal"
    /\ calls' = Append(calls, Call("CreateCloudspace", params.Org, params.Name,
                                   "ctx", NoPrice, 0, "pending"))
    /\ pc' = "cloudspaceInFlight"
    /\ ret' = ret
    /\ UNCHANGED <<impl, flags, mode, wiz, input, callsAtSignal, interactive, params, cloudspace, idx, cur,
                   ctxDone, createdResources, err, uuids>>

\* variant of CreateCloudspaceReturn that goes on to the pools after a failed create
CreateCloudspaceReturnKeepsGoing ==
    /\ pc = "cloudspaceInFlight"
    /\ impl = "signal"
    /\ \E ok \in BOOLEAN :
         /\ calls' = Resolve(calls, ok)
         /\ pc' = "spot"
         /\ idx' = 1
         /\ ret' = ret
    /\ UNCHANGED <<impl, flags, mode, wiz, input, callsAtSignal, interactive, params, cloudspace, cur,
                   ctxDone, createdResources, err, uuids>>

CreateCloudspaceReturn ==
    /\ pc = "cloudspaceInFlight"
    /\ impl = "signal"
    /\ \E ok \in BOOLEAN :
         /\ calls' = Resolve(calls, ok)
         /\ IF ok
            THEN /\ pc' = "spot"
                 /\ idx' = 1
                 /\ ret' = ret
            ELSE /\ Return(Outcome("createCloudspace", ""))
                 /\ idx' = idx
    /\ UNCHANGED <<impl, flags, mode, wiz, input, callsAtSignal, interactive, params, cloudspace, cur,
                   ctxDone, createdResources, err, uuids>>

\* the head of a pass of the spot loop: the select on ctx.Done(), with the
\* DeleteCloudspace(ctx, ..) of its cancellation branch
SpotCheck ==
    /\ pc = "spot"
    /\ impl = "signal"
    /\ IF idx > Len(params.SpotNodePools)
       THEN /\ pc' = "ondemand"
            /\ idx' = 1
            /\ UNCHANGED <<calls, ret>>
       ELSE IF CtxDone
       THEN /\ \E dok \in BOOLEAN :
                 calls' = Append(calls, DeleteCloudspaceCall("ctx", Res(dok)))
            /\ Return(Outcome("cancelled", ""))
            /\ idx' = idx
       ELSE /\ pc' = "spotCall"
            /\ UNCHANGED <<calls, idx, ret>>
    /\ UNCHANGED <<impl, flags, mode, wiz, input, callsAtSignal, interactive, params, cloudspace, ctxDone,
                   cur, createdResources, err, uuids>>

\* the rest of the pass up to the CreateSpotNodePool(ctx, ..) call: the
\* price checks, the name and the call, whatever has become of ctx since
\* the check
SpotIssue ==
    /\ pc = "spotCall"
    /\ impl = "signal"
    /\ LET pool == params.SpotNodePools[idx]
           bid == SagaBidPriceOf[pool.BidPrice]
           name == PoolName(pool, uuids)
       IN  IF ~bid.ok
           THEN /\ Return(Outcome("bidPrice", pool.Name))
                /\ UNCHANGED <<calls, cur, uuids>>
           ELSE /\ calls' = Append(calls, Call("CreateSpotNodePool", params.Org, name,
                                               "ctx", bid.out, pool.Desired, "pending"))
                /\ cur' = name
                /\ uuids' = IF pool.Name = "" THEN uuids + 1 ELSE uuids
                /\ pc' = "spotInFlight"
                /\ ret' = ret
    /\ UNCHANGED <<impl, flags, mode, wiz, input, callsAtSignal, interactive, params, cloudspace, ctxDone,
                   idx, createdResources, err>>

\* a pool loop that reads the pool back and goes on whatever the create
\* call returned
PoolReturnKeepsGoing(createOp, getOp, verifyPc) ==
    \E ok \in BOOLEAN :
        /\ calls' = Append(Resolve(calls, ok),
                           Call(getOp, params.Org, cur, "background", NoPrice, 0, "pending"))
        /\ pc' = verifyPc

\* what follows the result of a pool create call: on failure the
\* DeleteCloudspace call is issued, on success the call that reads the pool
\* back; either is then in flight
PoolReturn(createOp, getOp, verifyPc) ==
    \E ok \in BOOLEAN :
        IF ~ok
        THEN /\ calls' = Append(Resolve(calls, ok),
                                DeleteCloudspaceCall("background", "pending"))
             /\ pc' = "rollbackInFlight"
        ELSE /\ calls' = Append(Resolve(calls, ok),
                                Call(getOp, params.Org, cur, "background", NoPrice, 0, "pending"))
             /\ pc' = verifyPc

\* the read of the pool returns: the loop goes on, or the run ends with the
\* verification error
PoolVerified(nextPc) ==
    \E ok \in BOOLEAN :
        /\ calls' = Resolve(calls, ok)
        /\ IF ok
           THEN /\ idx' = idx + 1
                /\ pc' = nextPc
                /\ ret' = ret
           ELSE /\ Return(Outcome("verifyPool", cur))
                /\ idx' = idx

SpotReturn ==
    /\ pc = "spotInFlight"
    /\ impl = "signal"
    /\ PoolReturn("CreateSpotNodePool", "GetSpotNodePool", "spotVerifyInFlight")
    /\ UNCHANGED <<impl, flags, mode, wiz, input, callsAtSignal, interactive, params, cloudspace, idx,
                   cur, ctxDone, createdResources, err, ret, uuids>>

SpotVerified ==
    /\ pc = "spotVerifyInFlight"
    /\ impl = "signal"
    /\ PoolVerified("spot")
    /\ UNCHANGED <<impl, flags, mode, wiz, input, callsAtSignal, interactive, params, cloudspace, cur,
                   ctxDone, createdResources, err, uuids>>

\* the DeleteCloudspace call issued after a failed pool create returns: its
\* own failure, if any, is what RunE returns
RollbackReturn ==
    /\ pc = "rollbackInFlight"
    /\ impl = "signal"
    /\ \E ok \in BOOLEAN :
         /\ calls' = Resolve(calls, ok)
         /\ Return(IF ok THEN Outcome("createPool", cur)
                   ELSE Outcome("deleteCloudspace", params.Name))
    /\ UNCHANGED <<impl, flags, mode, wiz, input, callsAtSignal, interactive, params, cloudspace, idx,
                   cur, ctxDone, createdResources, err, uuids>>

\* one pass of the on-demand loop up to the CreateOnDemandNodePool call
\* the head of a pass of the on-demand loop: the select on ctx.Done()
OnDemandCheck ==
    /\ pc = "ondemand"
    /\ impl = "signal"
    /\ IF idx > Len(params.OnDemandNodePools)
       THEN /\ pc' = "final"
            /\ UNCHANGED <<calls, ret>>
       ELSE IF CtxDone
       THEN /\ \E dok \in BOOLEAN :
                 calls' = Append(calls, DeleteCloudspaceCall("ctx", Res(dok)))
            /\ Return(Outcome("cancelled", ""))
       ELSE /\ pc' = "ondemandCall"
            /\ UNCHANGED <<calls, ret>>
    /\ UNCHANGED <<impl, flags, mode, wiz, input, callsAtSignal, interactive, params, cloudspace, ctxDone,
                   idx, cur, createdResources, err, uuids>>

\* the name, the pool and the CreateOnDemandNodePool(ctx, ..) call, whatever
\* has become of ctx since the check
OnDemandIssue ==
    /\ pc = "ondemandCall"
    /\ impl = "signal"
    /\ LET pool == params.OnDemandNodePools[idx]
           name == PoolName(pool, uuids)
       IN  /\ calls' = Append(calls, Call("CreateOnDemandNodePool", params.Org, name,
                                          "ctx", NoPrice, pool.Desired, "pending"))
           /\ cur' = name
           /\ uuids' = IF pool.Name = "" THEN uuids + 1 ELSE uuids
           /\ pc' = "ondemandInFlight"
    /\ UNCHANGED <<impl, flags, mode, wiz, input, callsAtSignal, interactive, params, cloudspace, ctxDone,
                   idx, ret, createdResources, err>>

OnDemandReturn ==
    /\ pc = "ondemandInFlight"
    /\ impl = "signal"
    /\ PoolReturn("CreateOnDemandNodePool", "GetOnDemandNodePool", "ondemandVerifyInFlight")
    /\ UNCHANGED <<impl, flags, mode, wiz, input, callsAtSignal, interactive, params, cloudspace, idx,
                   cur, ctxDone, createdResources, err, ret, uuids>>

OnDemandVerified ==
    /\ pc = "ondemandVerifyInFlight"
    /\ impl = "signal"
    /\ PoolVerified("ondemand")
    /\ UNCHANGED <<impl, flags, mode, wiz, input, callsAtSignal, interactive, params, cloudspace, cur,
                   ctxDone, createdResources, err, uuids>>

\* the re-fetch of the cloudspace: GetCloudspace(context.Background(), ..)
Final ==
    /\ pc = "final"
    /\ impl = "signal"
    /\ calls' = Append(calls, Call("GetCloudspace", params.Org, params.Name, "background",
                                   NoPrice, 0, "pending"))
    /\ pc' = "finalInFlight"
    /\ UNCHANGED <<impl, flags, mode, wiz, input, callsAtSignal, interactive, params, cloudspace, idx, cur,
                   ctxDone, createdResources, err, ret, uuids>>

\* the re-fetch returns: its error ends the run
FinalReturn ==
    /\ pc = "finalInFlight"
    /\ impl = "signal"
    /\ \E gok \in BOOLEAN :
         /\ calls' = Resolve(calls, gok)
         /\ IF gok
            THEN /\ pc' = "finalCheck"
                 /\ ret' = ret
            ELSE Return(Outcome("getCloudspace", ""))
    /\ UNCHANGED <<impl, flags, mode, wiz, input, callsAtSignal, interactive, params, cloudspace, idx, cur,
                   ctxDone, createdResources, err, uuids>>

\* the last select on ctx.Done(), with the DeleteCloudspace(ctx, ..) of its
\* cancellation branch
FinalCheck ==
    /\ pc = "finalCheck"
    /\ impl = "signal"
    /\ IF CtxDone
       THEN /\ \E dok \in BOOLEAN :
                 calls' = Append(calls, DeleteCloudspaceCall("ctx", Res(dok)))
            /\ Return(Outcome("cancelled", ""))
       ELSE /\ pc' = "output"
            /\ UNCHANGED <<calls, ret>>
    /\ UNCHANGED <<impl, flags, mode, wiz, input, callsAtSignal, interactive, params, cloudspace, idx, cur,
                   ctxDone, createdResources, err, uuids>>

\* the default branch: internal.OutputData, whose error is returned,
\* whatever has become of ctx since the select
FinalOutput ==
    /\ pc = "output"
    /\ impl = "signal"
    /\ \E written \in BOOLEAN :
         Return(IF written THEN Outcome("ok", "") ELSE Outcome("output", ""))
    /\ UNCHANGED <<impl, flags, mode, wiz, input, callsAtSignal, interactive, params, cloudspace, idx, cur,
                   ctxDone, calls, createdResources, err, uuids>>

(***************************************************************************)
(* The ledger revision: createdResources, cleanupResources and the         *)
(* deferred error handler.  Its calls take context.Background().           *)
(***************************************************************************)
\* the results of the n deletes of one rollback: at most MaxDeleteFailures of
\* them fail
ResultSeqs(n) ==
    {rs \in [1..n -> BOOLEAN] : Cardinality({k \in 1..n : ~rs[k]}) <= MaxDeleteFailures}

PoolDeleteOp(isSpot) == IF isSpot THEN "DeleteSpotNodePool" ELSE "DeleteOnDemandNodePool"

\* a cleanupResources that returns at the first delete that fails
CleanupStopsAtFailure(created, org, csName, rs) ==
    LET np == created.nodePoolsCreated
        n == Len(np)
        full == [k \in 1..n |->
                    Call(PoolDeleteOp(np[n - k + 1].isSpot), org, np[n - k + 1].name,
                         "cleanupCtx", NoPrice, 0, Res(rs[k]))]
                \o (IF created.cloudspaceCreated
                    THEN <<Call("DeleteCloudspace", org, csName, "cleanupCtx", NoPrice, 0,
                                Res(rs[n + 1]))>>
                    ELSE <<>>)
        failed == {k \in 1..Len(full) : full[k].res = "err"}
    IN  IF failed = {} THEN full
        ELSE SubSeq(full, 1, CHOOSE k \in failed : \A h \in failed : k <= h)

\* cleanupResources: a delete for every ledger entry, the last one first,
\* then the delete of the cloudspace; rs[k] is the result of the k-th delete
\* and no failure ends the walk
CleanupResources(created, org, csName, rs) ==
    LET np == created.nodePoolsCreated
        n == Len(np)
    IN  [k \in 1..n |->
            Call(PoolDeleteOp(np[n - k + 1].isSpot), org, np[n - k + 1].name,
                 "cleanupCtx", NoPrice, 0, Res(rs[k]))]
        \o (IF created.cloudspaceCreated
            THEN <<Call("DeleteCloudspace", org, csName, "cleanupCtx", NoPrice, 0,
                        Res(rs[n + 1]))>>
            ELSE <<>>)

LedgerCreateCloudspace ==
    /\ pc = "createCloudspace"
    /\ impl = "ledger"
    /\ \E ok \in BOOLEAN :
         /\ calls' = Append(calls, Call("CreateCloudspace", params.Org, params.Name,
                                        "background", NoPrice, 0, Res(ok)))
         /\ IF ok
            THEN /\ createdResources' = [createdResources EXCEPT !.cloudspaceCreated = TRUE]
                 /\ pc' = "spot"
                 /\ idx' = 1
                 /\ ret' = ret
            ELSE /\ Return(Outcome("createCloudspace", ""))
                 /\ UNCHANGED <<createdResources, idx>>
    /\ UNCHANGED <<impl, flags, mode, wiz, input, callsAtSignal, interactive, params, cloudspace, cur,
                   ctxDone, err, uuids>>

\* a return statement after the defer statement: the deferred function runs
ReturnDeferred(outcome) ==
    /\ ret' = outcome
    /\ pc' = "deferred"

\* the pool is put on the ledger, created and read back; on failure
\* cleanupResources runs before the return.  setsErr: the error is assigned
\* to the function-scope err (the spot loop assigns to an err of its own)
LedgerPool(pool, isSpot, price, setsErr) ==
    LET name == PoolName(pool, uuids)
        tracked == [createdResources EXCEPT
                       !.nodePoolsCreated = Append(@, [name |-> name, isSpot |-> isSpot])]
        n == Len(tracked.nodePoolsCreated)
    IN  \E ok \in BOOLEAN, vok \in BOOLEAN, rs \in ResultSeqs(n + 1) :
          LET create == Call(IF isSpot THEN "CreateSpotNodePool" ELSE "CreateOnDemandNodePool",
                             params.Org, name, "background", price, pool.Desired, Res(ok))
              get == Call(IF isSpot THEN "GetSpotNodePool" ELSE "GetOnDemandNodePool",
                          params.Org, name, "background", NoPrice, 0, Res(vok))
              cleanup == CleanupResources(tracked, params.Org, params.Name, rs)
          IN  /\ createdResources' = tracked
              /\ uuids' = IF pool.Name = "" THEN uuids + 1 ELSE uuids
              /\ cur' = name
              /\ IF ~ok
                 THEN /\ calls' = (calls \o <<create>>) \o cleanup
                      /\ err' = (err \/ setsErr)
                      /\ ReturnDeferred(Outcome("createPool", name))
                      /\ idx' = idx
                 ELSE IF ~vok
                 THEN /\ calls' = (calls \o <<create, get>>) \o cleanup
                      /\ err' = (err \/ setsErr)
                      /\ ReturnDeferred(Outcome("verifyPool", name))
                      /\ idx' = idx
                 ELSE /\ calls' = calls \o <<create, get>>
                      /\ idx' = idx + 1
                      /\ UNCHANGED <<err, ret, pc>>

LedgerSpot ==
    /\ pc = "spot"
    /\ impl = "ledger"
    /\ IF idx > Len(params.SpotNodePools)
       THEN /\ pc' = "ondemand"
            /\ idx' = 1
            /\ UNCHANGED <<calls, cur, createdResources, err, ret, uuids>>
       ELSE LET pool == params.SpotNodePools[idx]
                bid == SagaBidPriceOf[pool.BidPrice]
            IN  IF ~bid.ok
                THEN /\ ReturnDeferred(Outcome("bidPrice", pool.Name))
                     /\ UNCHANGED <<calls, idx, cur, createdResources, err, uuids>>
                ELSE LedgerPool(pool, TRUE, bid.out, FALSE)
    /\ UNCHANGED <<impl, flags, mode, wiz, input, callsAtSignal, interactive, params, cloudspace, ctxDone>>

LedgerOnDemand ==
    /\ pc = "ondemand"
    /\ impl = "ledger"
    /\ IF idx > Len(params.OnDemandNodePools)
       THEN /\ pc' = "final"
            /\ UNCHANGED <<calls, idx, cur, createdResources, err, ret, uuids>>
       ELSE LedgerPool(params.OnDemandNodePools[idx], FALSE, NoPrice, TRUE)
    /\ UNCHANGED <<impl, flags, mode, wiz, input, callsAtSignal, interactive, params, cloudspace, ctxDone>>

LedgerFinal ==
    /\ pc = "final"
    /\ impl = "ledger"
    /\ \E gok \in BOOLEAN, written \in BOOLEAN :
         /\ calls' = Append(calls, Call("GetCloudspace", params.Org, params.Name,
                                        "background", NoPrice, 0, Res(gok)))
         /\ err' = ~gok
         /\ ReturnDeferred(IF ~gok THEN Outcome("getCloudspace", "")
                           ELSE IF written THEN Outcome("ok", "")
                           ELSE Outcome("output", ""))
    /\ UNCHANGED <<impl, flags, mode, wiz, input, callsAtSignal, interactive, params, cloudspace, idx, cur,
                   ctxDone, createdResources, uuids>>

\* the deferred function (no panic is modelled): cleanupResources when the
\* function-scope err is set and the cloudspace was created
LedgerDeferred ==
    /\ pc = "deferred"
    /\ impl = "ledger"
    /\ IF err /\ createdResources.cloudspaceCreated
       THEN \E rs \in ResultSeqs(Len(createdResources.nodePoolsCreated) + 1) :
              calls' = calls \o CleanupResources(createdResources, params.Org, params.Name, rs)
       ELSE calls' = calls
    /\ pc' = "done"
    /\ UNCHANGED <<impl, flags, mode, wiz, input, callsAtSignal, interactive, params, cloudspace, idx, cur,
                   ctxDone, createdResources, err, ret, uuids>>

(***************************************************************************)
(* The defer revision: cleanupStack and createdCloudspace (kept in         *)
(* createdResources), run by a deferred function.  org is the --org value  *)
(* or the configured organization, cloudspace the descriptor built from    *)
(* the file, the flags or the prompts.  Its prompts are those of one       *)
(* passage through RunE, taken in one step.                                *)
(***************************************************************************)
\* hasAnyFlag: the values of --name, --region, --config and the pool flags
\* (and of --kubernetes_version and --cni when not the default, which the
\* model does not carry); --org is not looked at
HasAnyFlag(fl) ==
    fl \cap {"name", "region", "config", "spot-nodepool", "ondemand-nodepool"} # {}

\* a key=value pool descriptor: desired 0 (or missing) becomes 1, a missing
\* name becomes spot-pool-N or ondemand-pool-N, a bid price is formatted by
\* validateBidPrice
DeferDesired(d) == IF d = 0 THEN 1 ELSE d

DeferFlagsParams(in) ==
    [Name |-> in.Name, Org |-> in.Org, Region |-> in.Region,
     SpotNodePools |->
        [k \in 1..Len(in.Spot) |->
            [Name |-> IF in.Spot[k].Name = "" THEN "spot-pool-" \o ToString(k)
                      ELSE in.Spot[k].Name,
             BidPrice |-> IF in.Spot[k].BidPrice = <<>> THEN <<>>
                          ELSE ValidatedBidPrice[in.Spot[k].BidPrice].out,
             Desired |-> DeferDesired(in.Spot[k].Desired)]],
     OnDemandNodePools |->
        [k \in 1..Len(in.OnDemand) |->
            [Name |-> IF in.OnDemand[k].Name = ""
                      THEN "ondemand-pool-" \o ToString(k)
                      ELSE in.OnDemand[k].Name,
             Desired |-> DeferDesired(in.OnDemand[k].Desired)]]]

\* a bidprice value that validateBidPrice rejects ends the run
DeferFlagsBad(in) ==
    \E k \in 1..Len(in.Spot) :
        in.Spot[k].BidPrice # <<>> /\ ~ValidatedBidPrice[in.Spot[k].BidPrice].ok

\* the switch over the keys of a spot descriptor ends the run at a key it
\* does not know; the switch of an on-demand descriptor has no default case
DeferUnknownKey(in) == in.Unknown = "spot"

\* the errors the descriptor loop can end with: the keys of the map are
\* visited in no fixed order, so a descriptor with an unknown key and a
\* rejected bid price gives either error
DeferFlagsErrors(in) ==
    IF in.Malformed = "spot" THEN {"parse"}
    ELSE IF DeferUnknownKey(in)
    THEN {"unknownParameter"}
         \cup (IF DeferFlagsBad([in EXCEPT !.Spot = <<in.Spot[1]>>])
               THEN {"bidPrice"} ELSE {})
    ELSE IF DeferFlagsBad(in) THEN {"bidPrice"}
    ELSE IF in.Malformed = "ondemand" THEN {"parse"}
    ELSE {}

\* the prompts of the interactive passage: region and name, one spot pool
\* (bid price, a confirmation when it is below the minimum, node count),
\* an optional on-demand pool, the final confirmation
DeferPrompts(key, region, name, spot, proceed, addOnDemand, od, confirm, u) ==
    LET typed == IF spot.BidPrice = <<>> THEN MinBidPrice ELSE spot.BidPrice
        below == ParseFloatOk(typed)
                 /\ ParseFloatVal(typed) < ParseFloatVal(MinBidPrice)
        nodes(d) == IF d < 1 THEN 1 ELSE d
    IN  IF key = "error" THEN [kind |-> "load", what |-> "failed", params |-> NoParams]
        ELSE IF name = "" THEN [kind |-> "validation", what |-> "name", params |-> NoParams]
        ELSE IF ~ParseFloatOk(typed)
        THEN [kind |-> "load", what |-> "bidPrice", params |-> NoParams]
        ELSE IF below /\ ~proceed
        THEN [kind |-> "load", what |-> "refused", params |-> NoParams]
        ELSE IF ~confirm
        THEN [kind |-> "load", what |-> "refused", params |-> NoParams]
        ELSE [kind |-> "ok", what |-> "",
              params |->
                [Name |-> name, Org |-> OrgInput, Region |-> region,
                 SpotNodePools |->
                    <<[Name |-> Uuid(u + 1),
                       BidPrice |-> Format3(ParseFloatVal(typed)),
                       Desired |-> nodes(spot.Desired)]>>,
                 OnDemandNodePools |->
                    IF addOnDemand
                    THEN <<[Name |-> Uuid(u + 2), Desired |-> nodes(od.Desired)]>>
                    ELSE <<>>]]

DeferAcquire ==
    /\ pc = "start"
    /\ impl = "defer"
    /\ interactive' = ~HasAnyFlag(flags)
    /\ mode' = IF "config" \in flags THEN "File"
               ELSE IF HasAnyFlag(flags) THEN "Flags" ELSE "Wizard"
    /\ IF "config" \in flags
       THEN /\ IF "name" \in flags
               THEN /\ Return(Outcome("load", "conflict"))
                    /\ UNCHANGED <<params, cloudspace>>
               ELSE \E readable \in BOOLEAN :
                      IF readable
                      THEN /\ params' = FileParams(input)
                           /\ cloudspace' = [nil |-> FALSE, Name |-> input.Name,
                                             Org |-> input.Org]
                           /\ pc' = "validate"
                           /\ ret' = ret
                      ELSE /\ Return(Outcome("load", "file"))
                           /\ UNCHANGED <<params, cloudspace>>
            /\ UNCHANGED <<wiz, uuids>>
       ELSE IF HasAnyFlag(flags)
       THEN /\ LET rule == IF input.Name = "" THEN "name"
                           ELSE IF input.Region = "" THEN "region"
                           ELSE IF {"spot-nodepool", "ondemand-nodepool"} \cap flags = {}
                           THEN "pools" ELSE ""
               IN  IF rule # ""
                   THEN /\ Return(Outcome("validation", rule))
                        /\ UNCHANGED <<params, cloudspace>>
                   ELSE IF DeferFlagsErrors(input) # {}
                   THEN /\ \E e \in DeferFlagsErrors(input) :
                             Return(Outcome("load", e))
                        /\ UNCHANGED <<params, cloudspace>>
                   ELSE /\ params' = DeferFlagsParams(input)
                        /\ cloudspace' = [nil |-> FALSE, Name |-> input.Name,
                                          Org |-> input.Org]
                        /\ pc' = "validate"
                        /\ ret' = ret
            /\ UNCHANGED <<wiz, uuids>>
       ELSE \E key \in {"enter", "error"}, region \in WizardRegions,
               name \in NameInputs, spot \in SpotSpecs, proceed \in BOOLEAN,
               addOnDemand \in BOOLEAN, od \in OnDemandSpecs, confirm \in BOOLEAN :
              LET r == DeferPrompts(key, region, name, spot, proceed,
                                    addOnDemand, od, confirm, uuids)
              IN  IF r.kind = "ok"
                  THEN /\ params' = r.params
                       /\ cloudspace' = [nil |-> FALSE, Name |-> name,
                                         Org |-> OrgInput]
                       /\ uuids' = uuids + Len(r.params.SpotNodePools)
                                         + Len(r.params.OnDemandNodePools)
                       /\ wiz' = [NoWizard EXCEPT !.state = "completed"]
                       /\ pc' = "validate"
                       /\ ret' = ret
                  ELSE /\ wiz' = [NoWizard EXCEPT !.state =
                                     IF r.what = "refused" THEN "refused"
                                     ELSE "failed"]
                       /\ Return(Outcome(r.kind, r.what))
                       /\ UNCHANGED <<params, cloudspace, uuids>>
    /\ UNCHANGED <<impl, flags, input, callsAtSignal, idx, cur, ctxDone, calls,
                   createdResources, err>>

\* "1. First, validate all resources": the rule that fails first
DeferValidateRule(p) ==
    IF \E k \in 1..Len(p.SpotNodePools) :
           p.SpotNodePools[k].Desired <= 0 \/ p.SpotNodePools[k].BidPrice = <<>>
    THEN LET k == CHOOSE j \in 1..Len(p.SpotNodePools) :
                    /\ p.SpotNodePools[j].Desired <= 0 \/ p.SpotNodePools[j].BidPrice = <<>>
                    /\ \A h \in 1..(j - 1) :
                          ~(p.SpotNodePools[h].Desired <= 0 \/ p.SpotNodePools[h].BidPrice = <<>>)
         IN  IF p.SpotNodePools[k].Desired <= 0 THEN "desired" ELSE "bidPrice"
    ELSE IF \E k \in 1..Len(p.OnDemandNodePools) : p.OnDemandNodePools[k].Desired <= 0
    THEN "desired"
    ELSE ""

DeferValidate ==
    /\ pc = "validate"
    /\ impl = "defer"
    /\ LET rule == DeferValidateRule(params)
       IN  IF rule # ""
           THEN ReturnDeferred(Outcome("validation", rule))
           ELSE /\ pc' = "createCloudspace"
                /\ ret' = ret
    /\ UNCHANGED <<impl, flags, mode, wiz, input, callsAtSignal, interactive, params, cloudspace, idx, cur,
                   ctxDone, calls, createdResources, err, uuids>>

DeferCreateCloudspace ==
    /\ pc = "createCloudspace"
    /\ impl = "defer"
    /\ \E ok \in BOOLEAN :
         /\ calls' = Append(calls, Call("CreateCloudspace", cloudspace.Org, cloudspace.Name,
                                        "background", NoPrice, 0, Res(ok)))
         /\ err' = ~ok
         /\ IF ok
            THEN /\ createdResources' = [createdResources EXCEPT !.cloudspaceCreated = TRUE]
                 /\ pc' = "spot"
                 /\ idx' = 1
                 /\ ret' = ret
            ELSE /\ ReturnDeferred(Outcome("createCloudspace", ""))
                 /\ UNCHANGED <<createdResources, idx>>
    /\ UNCHANGED <<impl, flags, mode, wiz, input, callsAtSignal, interactive, params, cloudspace, cur,
                   ctxDone, uuids>>

\* the pool is created with the name it has; its delete goes on the
\* cleanup stack only after the create call succeeded
DeferPool(pool, isSpot, price) ==
    \E ok \in BOOLEAN :
        /\ calls' = Append(calls,
                Call(IF isSpot THEN "CreateSpotNodePool" ELSE "CreateOnDemandNodePool",
                     params.Org, pool.Name, "background", price, pool.Desired, Res(ok)))
        /\ err' = ~ok
        /\ cur' = pool.Name
        /\ IF ok
           THEN /\ createdResources' =
                      [createdResources EXCEPT
                          !.nodePoolsCreated = Append(@, [name |-> pool.Name, isSpot |-> isSpot])]
                /\ idx' = idx + 1
                /\ UNCHANGED <<pc, ret>>
           ELSE /\ ReturnDeferred(Outcome("createPool", pool.Name))
                /\ UNCHANGED <<createdResources, idx>>

DeferSpot ==
    /\ pc = "spot"
    /\ impl = "defer"
    /\ IF idx > Len(params.SpotNodePools)
       THEN /\ pc' = "ondemand"
            /\ idx' = 1
            /\ UNCHANGED <<calls, cur, createdResources, err, ret>>
       ELSE DeferPool(params.SpotNodePools[idx], TRUE, params.SpotNodePools[idx].BidPrice)
    /\ UNCHANGED <<impl, flags, mode, wiz, input, callsAtSignal, interactive, params, cloudspace, ctxDone, uuids>>

DeferOnDemand ==
    /\ pc = "ondemand"
    /\ impl = "defer"
    /\ IF idx > Len(params.OnDemandNodePools)
       THEN /\ pc' = "final"
            /\ UNCHANGED <<calls, idx, cur, createdResources, err, ret>>
       ELSE DeferPool(params.OnDemandNodePools[idx], FALSE, NoPrice)
    /\ UNCHANGED <<impl, flags, mode, wiz, input, callsAtSignal, interactive, params, cloudspace, ctxDone, uuids>>

\* cleanupStack = nil, then cloudspace, err = GetCloudspace(..): on an error
\* the pointer the client returns replaces cloudspace, nil or an empty
\* descriptor (the client is not part of the repository)
DeferFinal ==
    /\ pc = "final"
    /\ impl = "defer"
    /\ createdResources' = [createdResources EXCEPT !.nodePoolsCreated = <<>>]
    /\ \E gok \in BOOLEAN, nilPtr \in BOOLEAN, written \in BOOLEAN :
         /\ calls' = Append(calls, Call("GetCloudspace", params.Org, cloudspace.Name,
                                        "background", NoPrice, 0, Res(gok)))
         /\ err' = ~gok
         /\ cloudspace' = IF gok THEN cloudspace
                          ELSE [nil |-> nilPtr, Name |-> "", Org |-> ""]
         /\ ReturnDeferred(IF ~gok THEN Outcome("getCloudspace", "")
                           ELSE IF written THEN Outcome("ok", "")
                           ELSE Outcome("output", ""))
    /\ UNCHANGED <<impl, flags, mode, wiz, input, callsAtSignal, interactive, params, idx, cur, ctxDone, uuids>>

\* the cleanup stack, last entry first; rs[k] is the result of the k-th
\* delete and no failure ends the walk
CleanupStack(stack, org, rs) ==
    [k \in 1..Len(stack) |->
        Call(PoolDeleteOp(stack[Len(stack) - k + 1].isSpot), org,
             stack[Len(stack) - k + 1].name, "background", NoPrice, 0, Res(rs[k]))]

\* the deferred function: nothing unless err is set and the cloudspace was
\* created; DeleteCloudspace is given cloudspace.Name where the API takes
\* the organization and cloudspace.Org where it takes the name, and
\* dereferences cloudspace
DeferDeferred ==
    /\ pc = "deferred"
    /\ impl = "defer"
    /\ IF ~err \/ ~createdResources.cloudspaceCreated
       THEN UNCHANGED <<calls, ret>>
       ELSE \E rs \in ResultSeqs(Len(createdResources.nodePoolsCreated) + 1) :
              LET pools == CleanupStack(createdResources.nodePoolsCreated, params.Org, rs)
                  n == Len(createdResources.nodePoolsCreated)
              IN  IF cloudspace.nil
                  THEN /\ calls' = calls \o pools
                       /\ ret' = Outcome("panic", "")
                  ELSE /\ calls' = (calls \o pools) \o
                                   <<Call("DeleteCloudspace", cloudspace.Name, cloudspace.Org,
                                          "background", NoPrice, 0, Res(rs[n + 1]))>>
                       /\ ret' = ret
    /\ pc' = "done"
    /\ UNCHANGED <<impl, flags, mode, wiz, input, callsAtSignal, interactive, params, cloudspace, idx, cur,
                   ctxDone, createdResources, err, uuids>>

Next ==
    \/ Signal
    \/ Acquire
    \/ StepSelectRegion
    \/ StepEnterName
    \/ StepSelectKubernetesVersion
    \/ StepSelectCNI
    \/ StepAddNodePools
    \/ StepSummaryAndConfirm
    \/ Validate
    \/ CreateCloudspaceCheck
    \/ CreateCloudspaceIssue
    \/ CreateCloudspaceReturn
    \/ SpotCheck
    \/ SpotIssue
    \/ SpotReturn
    \/ SpotVerified
    \/ RollbackReturn
    \/ OnDemandCheck
    \/ OnDemandIssue
    \/ OnDemandReturn
    \/ OnDemandVerified
    \/ Final
    \/ FinalReturn
    \/ FinalCheck
    \/ FinalOutput
    \/ LedgerCreateCloudspace
    \/ LedgerSpot
    \/ LedgerOnDemand
    \/ LedgerFinal
    \/ LedgerDeferred
    \/ DeferAcquire
    \/ DeferValidate
    \/ DeferCreateCloudspace
    \/ DeferSpot
    \/ DeferOnDemand
    \/ DeferFinal
    \/ DeferDeferred

Spec == Init /\ [][Next]_vars

(***************************************************************************)
(* Bid price normalization on its own: runs of the signal revision on a    *)
(* readable file with a valid name and region and one spot pool, whose     *)
(* bidprice ranges over decimal strings with or without a sign or a        *)
(* currency symbol, up to the point where validateCreateParams has stored  *)
(* the normalized price.                                                   *)
(***************************************************************************)
PriceInit ==
    /\ impl = "signal"
    /\ flags = {"config"}
    /\ \E price \in PriceInputs :
          input = [Name |-> "cs1", Org |-> OrgInput, Region |-> "us-east-iad-1",
                   Spot |-> <<[Name |-> "spot-a", BidPrice |-> price, Desired |-> 1]>>,
                   OnDemand |-> <<>>, Unknown |-> "none", Malformed |-> "none",
                   CfgRegion |-> ""]
    /\ mode = "none"
    /\ wiz = NoWizard
    /\ interactive = FALSE
    /\ params = NoParams
    /\ cloudspace = NilCloudspace
    /\ pc = "start"
    /\ idx = 0
    /\ cur = ""
    /\ ctxDone = FALSE
    /\ calls = <<>>
    /\ createdResources = [cloudspaceCreated |-> FALSE, nodePoolsCreated |-> <<>>]
    /\ err = FALSE
    /\ ret = Running
    /\ uuids = 0
    /\ callsAtSignal = <<>>

PriceNext ==
    \/ Acquire
    \/ Validate

PriceSpec == PriceInit /\ [][PriceNext]_vars

(***************************************************************************)
(* Reading the call log.                                                   *)
(***************************************************************************)
Done == pc = "done"

PoolCreateOps == {"CreateSpotNodePool", "CreateOnDemandNodePool"}

PoolDeleteOps == {"DeleteSpotNodePool", "DeleteOnDemandNodePool"}

CreateOps == PoolCreateOps \cup {"CreateCloudspace"}

DeleteOps == PoolDeleteOps \cup {"DeleteCloudspace"}

\* the positions in the log of the calls of these operations
CallsOf(ops) == {k \in 1..Len(calls) : calls[k].op \in ops}

Succeeded(ops) == {k \in CallsOf(ops) : calls[k].res = "ok"}

Failed(ops) == {k \in CallsOf(ops) : calls[k].res = "err"}

DeleteOpOf(op) ==
    IF op = "CreateCloudspace" THEN "DeleteCloudspace"
    ELSE IF op = "CreateSpotNodePool" THEN "DeleteSpotNodePool"
    ELSE "DeleteOnDemandNodePool"

\* a later call deletes what the k-th call created
DeletedAfter(k) ==
    \E j \in (k + 1)..Len(calls) :
        /\ calls[j].op = DeleteOpOf(calls[k].op)
        /\ calls[j].org = calls[k].org
        /\ calls[j].name = calls[k].name

PoolsRequested == Len(params.SpotNodePools) + Len(params.OnDemandNodePools)

IsCreated(c) == c.op \in CreateOps /\ c.res = "ok"

IsDelete(c) == c.op \in DeleteOps

IsSpotCreate(c) == c.op = "CreateSpotNodePool"

IsOnDemandCreate(c) == c.op = "CreateOnDemandNodePool"

\* the resource a create or delete call is about: the cloudspace, or a pool
\* by kind and name
Target(c) ==
    IF c.op \in {"CreateCloudspace", "DeleteCloudspace"} THEN <<"cloudspace">>
    ELSE IF c.op \in {"CreateSpotNodePool", "DeleteSpotNodePool"} THEN <<"spot", c.name>>
    ELSE <<"ondemand", c.name>>

Targets(cs) == [k \in 1..Len(cs) |-> Target(cs[k])]

Reverse(s) == [k \in 1..Len(s) |-> s[Len(s) - k + 1]]

(***************************************************************************)
(* C1.  End-state guarantee: a run that created the cloudspace ends either *)
(* in success, every requested resource created and the cloudspace read    *)
(* back, or in an error with a delete call issued for every resource whose *)
(* create call succeeded.                                                  *)
(***************************************************************************)
C1_EndStateGuarantee ==
    (Done /\ CallsOf({"CreateCloudspace"}) # {}) =>
        \/ /\ ret.kind = "ok"
           /\ Failed(CreateOps) = {}
           /\ Cardinality(CallsOf(PoolCreateOps)) = PoolsRequested
           /\ calls[Len(calls)].op = "GetCloudspace"
           /\ calls[Len(calls)].res = "ok"
        \/ /\ ret.kind # "ok"
           /\ \A k \in Succeeded(CreateOps) : DeletedAfter(k)

(***************************************************************************)
(* C2.  Saga rollback count: when the create call of a pool fails after    *)
(* the cloudspace and the pools before it were created, the run issues     *)
(* exactly one delete for each pool created before it (k-1 pool deletes),  *)
(* exactly one cloudspace delete, and no create call after the failed one. *)
(***************************************************************************)
C2_RollbackCount ==
    (Done /\ Failed(PoolCreateOps) # {}) =>
        /\ Cardinality(CallsOf(PoolDeleteOps)) = Cardinality(Succeeded(PoolCreateOps))
        /\ \A k \in Succeeded(PoolCreateOps) : DeletedAfter(k)
        /\ Cardinality(CallsOf({"DeleteCloudspace"})) = 1
        /\ \A f \in Failed(PoolCreateOps) : \A j \in CallsOf(CreateOps) : j <= f

(***************************************************************************)
(* C3.  Cancellation before the first pool: when the signal arrives after  *)
(* the cloudspace create call has succeeded and before any pool create     *)
(* call, the run ends with the cancelled outcome, its only further call is *)
(* the delete of the cloudspace, and no pool create call is issued.        *)
(***************************************************************************)
SignalAfterCloudspace ==
    /\ impl = "signal"
    /\ ctxDone
    /\ Len(callsAtSignal) = 1
    /\ callsAtSignal[1].op = "CreateCloudspace"
    /\ callsAtSignal[1].res = "ok"

C3_CancelBeforeFirstPool ==
    (Done /\ SignalAfterCloudspace) =>
        /\ ret.kind = "cancelled"
        /\ CallsOf(PoolCreateOps) = {}
        /\ Len(calls) = 2
        /\ calls[2].op = "DeleteCloudspace"
        /\ calls[2].org = calls[1].org
        /\ calls[2].name = calls[1].name

(***************************************************************************)
(* C4.  No create after cancellation (signal revision): a run in which a   *)
(* cancellation check found the signal is over, with nothing issued after  *)
(* the check but the delete of the cloudspace; and every check made after  *)
(* the signal finds it, so a create call issued on the cancelled context   *)
(* (its check came before the signal) is the last create call of the run.  *)
(***************************************************************************)
C4_NoCreateAfterCancel ==
    (impl = "signal") =>
        /\ ret.kind = "cancelled" =>
              /\ Done
              /\ calls # <<>> =>
                    /\ calls[Len(calls)].op = "DeleteCloudspace"
                    /\ calls[Len(calls)].ctx = "ctx"
              /\ \A k \in CallsOf(CreateOps) : k < Len(calls)
        /\ \A k \in CallsOf(CreateOps) :
              ~calls[k].live => \A j \in CallsOf(CreateOps) : j <= k

C4_Witness ==
    /\ Done
    /\ impl = "signal"
    /\ ret.kind = "cancelled"
    /\ Succeeded(PoolCreateOps) # {}
    /\ Cardinality(CallsOf(PoolCreateOps)) < PoolsRequested

(***************************************************************************)
(* C5.  Cancellation mid-saga: a run cancelled before the create call of   *)
(* pool k (k >= 2) rolls back as a failure at pool k does: a delete for    *)
(* each of the k-1 pools created, then the delete of the cloudspace.       *)
(***************************************************************************)
CancelledBeforePool ==
    /\ Done
    /\ impl = "signal"
    /\ ret.kind = "cancelled"
    /\ Succeeded(PoolCreateOps) # {}
    /\ CallsOf({"GetCloudspace"}) = {}

C5_CancelMidSaga ==
    CancelledBeforePool =>
        /\ \A k \in Succeeded(PoolCreateOps) : DeletedAfter(k)
        /\ Cardinality(CallsOf(PoolDeleteOps)) = Cardinality(Succeeded(PoolCreateOps))
        /\ calls[Len(calls)].op = "DeleteCloudspace"

(***************************************************************************)
(* C6.  Rollback order: whenever the ledger or defer revision rolls back,  *)
(* its delete calls are the resources successfully created, in the exact   *)
(* reverse of their creation order, the cloudspace last.                   *)
(***************************************************************************)
C6_RollbackOrder ==
    (Done /\ impl \in {"ledger", "defer"} /\ CallsOf(DeleteOps) # {}) =>
        Targets(SelectSeq(calls, IsDelete)) = Reverse(Targets(SelectSeq(calls, IsCreated)))

(***************************************************************************)
(* C7.  Creation order: the cloudspace create call is the first create     *)
(* call and the only one for the cloudspace; spot pools are created in     *)
(* request order, then on-demand pools in request order; a create call is  *)
(* issued only after every create call before it returned success.         *)
(***************************************************************************)
C7_CreationOrder ==
    LET sc == SelectSeq(calls, IsSpotCreate)
        oc == SelectSeq(calls, IsOnDemandCreate)
    IN  /\ CallsOf(CreateOps) # {} =>
              /\ calls[1].op = "CreateCloudspace"
              /\ Cardinality(CallsOf({"CreateCloudspace"})) = 1
        /\ \A j \in CallsOf(CreateOps) : \A k \in CallsOf(CreateOps) :
              k < j => calls[k].res = "ok"
        /\ \A j \in CallsOf({"CreateSpotNodePool"}) :
              \A k \in CallsOf({"CreateOnDemandNodePool"}) : j < k
        /\ Len(sc) <= Len(params.SpotNodePools)
        /\ Len(oc) <= Len(params.OnDemandNodePools)
        /\ \A k \in 1..Len(sc) :
              /\ sc[k].desired = params.SpotNodePools[k].Desired
              /\ params.SpotNodePools[k].Name # "" => sc[k].name = params.SpotNodePools[k].Name
        /\ \A k \in 1..Len(oc) :
              /\ oc[k].desired = params.OnDemandNodePools[k].Desired
              /\ params.OnDemandNodePools[k].Name # "" =>
                    oc[k].name = params.OnDemandNodePools[k].Name

\* a spot pool and then two on-demand pools that differ were created
C7_Witness ==
    /\ Done
    /\ ret.kind = "ok"
    /\ Cardinality(Succeeded({"CreateSpotNodePool"})) = 1
    /\ Cardinality(Succeeded({"CreateOnDemandNodePool"})) = 2
    /\ \E j \in CallsOf({"CreateOnDemandNodePool"}) :
          \E k \in CallsOf({"CreateOnDemandNodePool"}) :
             /\ calls[j].desired # calls[k].desired
             /\ calls[j].name # calls[k].name

(***************************************************************************)
(* C8.  Rollback failures are not promoted: when a pool create call of the *)
(* signal revision fails, the error returned is the pool-creation error    *)
(* naming that pool, whether or not the rollback's delete succeeds.        *)
(***************************************************************************)
C8_RollbackFailureNotPromoted ==
    (Done /\ impl = "signal" /\ Failed(PoolCreateOps) # {}) =>
        /\ ret.kind = "createPool"
        /\ \E f \in Failed(PoolCreateOps) : ret.what = calls[f].name

(***************************************************************************)
(* C9.  Rollback is best effort per entry: when the ledger or defer        *)
(* revision rolls back, a delete call is issued for every entry of the     *)
(* ledger and for the cloudspace, whatever the earlier deletes returned.   *)
(***************************************************************************)
C9_RollbackBestEffort ==
    (Done /\ impl \in {"ledger", "defer"} /\ CallsOf(DeleteOps) # {}) =>
        /\ \A e \in 1..Len(createdResources.nodePoolsCreated) :
              \E j \in CallsOf(PoolDeleteOps) :
                 /\ calls[j].op = PoolDeleteOp(createdResources.nodePoolsCreated[e].isSpot)
                 /\ calls[j].name = createdResources.nodePoolsCreated[e].name
        /\ CallsOf({"DeleteCloudspace"}) # {}

C9_Witness ==
    /\ Done
    /\ impl \in {"ledger", "defer"}
    /\ Len(createdResources.nodePoolsCreated) >= 2
    /\ \E j \in Failed(PoolDeleteOps) :
          /\ \A h \in CallsOf(DeleteOps) : j <= h
          /\ \E h \in CallsOf(PoolDeleteOps) : h > j
          /\ \E h \in CallsOf({"DeleteCloudspace"}) : h > j

\* the region of the request handed to validation: the one given, or the
\* configuration's default region when none was given
RequestRegion == WithDefaults([Org |-> input.Org, Region |-> input.Region], input).Region

(***************************************************************************)
(* C10.  Validation precedes mutation: in the signal revision no call is   *)
(* issued before validation has passed, a run whose acquisition or         *)
(* validation failed issues no call at all, a run given a pool descriptor  *)
(* that does not parse issues no call at all, and a non-interactive run    *)
(* that issued a call has a request that meets the validation rules, its   *)
(* region being the one validation was handed.                             *)
(***************************************************************************)
C10_ValidationPrecedesMutation ==
    (impl = "signal") =>
        /\ calls # <<>> => pc \notin {"start", "validate"}
        /\ ret.kind \in {"load", "validation"} => calls = <<>>
        /\ (mode = "Flags" /\ input.Malformed # "none") => calls = <<>>
        /\ (calls # <<>> /\ mode # "Wizard") =>
              /\ input.Name # ""
              /\ RequestRegion \in ValidRegions
              /\ Len(input.Spot) + Len(input.OnDemand) >= 1
              /\ \A k \in 1..Len(input.Spot) :
                    /\ input.Spot[k].BidPrice # <<>>
                    /\ ValidateBidPrice(input.Spot[k].BidPrice).ok
              /\ mode = "File" =>
                    \A k \in 1..Len(input.OnDemand) : input.OnDemand[k].Desired > 0

(***************************************************************************)
(* C11.  Empty pool lists: the signal revision never issues the cluster    *)
(* create for parameters that hold no pool, and a run whose request names  *)
(* no pool ends with the pool-required error once the name and region      *)
(* rules, which are checked first on a file, have passed; a wizard that    *)
(* completed hands over at least one pool.                                 *)
(***************************************************************************)
C11_EmptyPoolsRejected ==
    (impl = "signal") =>
        /\ (calls # <<>> \/ (mode = "Wizard" /\ wiz.state = "completed")) =>
              Len(params.SpotNodePools) + Len(params.OnDemandNodePools) >= 1
        /\ (Done /\ mode = "File" /\ input.Spot = <<>> /\ input.OnDemand = <<>>
              /\ ret.kind # "load"
              /\ input.Name # "" /\ RequestRegion \in ValidRegions) =>
              ret = Outcome("validation", "pools")
        /\ (Done /\ mode = "Flags" /\ input.Spot = <<>> /\ input.OnDemand = <<>>) =>
              ret.kind = "load"
        /\ (Done /\ Len(input.Spot) + Len(input.OnDemand) = 0 /\ mode # "Wizard") =>
              /\ ret.kind \in {"load", "validation"}
              /\ calls = <<>>

C11_Witness ==
    /\ Done
    /\ impl = "signal"
    /\ mode = "File"
    /\ input.Spot = <<>>
    /\ input.OnDemand = <<>>
    /\ ret = Outcome("validation", "pools")
    /\ calls = <<>>

(***************************************************************************)
(* C12.  Region validation in flag mode: a run of the signal revision      *)
(* whose request has a region that is not one of the valid regions (the    *)
(* --region value, or the configuration's default region when the flag is  *)
(* absent) issues no remote call of any kind, always ends in an error, and *)
(* ends with the region validation error when a name was given (the name   *)
(* rule comes first).                                                      *)
(***************************************************************************)
C12_InvalidRegionRejected ==
    (impl = "signal" /\ mode = "Flags" /\ RequestRegion \notin ValidRegions) =>
        /\ calls = <<>>
        /\ Done => ret.kind \in {"load", "validation"}
        /\ (Done /\ input.Name # "") =>
              ret = Outcome("validation",
                            IF RequestRegion = "" THEN "region" ELSE "regionInvalid")

(***************************************************************************)
(* C13.  Desired count: every pool passed to a pool create call of the     *)
(* signal revision has a desired count of at least one.                    *)
(***************************************************************************)
C13_DesiredAtLeastOne ==
    (impl = "signal") =>
        \A k \in CallsOf(PoolCreateOps) : calls[k].desired >= 1

(***************************************************************************)
(* C14.  Source selection: the request is taken from the file when         *)
(* --config is given, otherwise from the flags when any flag was set,      *)
(* otherwise from the wizard; no prompt is shown while a flag is set.      *)
(***************************************************************************)
C14_SourceSelection ==
    (impl \in {"signal", "defer"}) =>
        /\ mode # "none" =>
              mode = IF "config" \in flags THEN "File"
                     ELSE IF flags # {} THEN "Flags"
                     ELSE "Wizard"
        /\ wiz.state # "idle" => flags = {}

(***************************************************************************)
(* C15.  Conflicting sources: a run given both --config and --name never   *)
(* issues a remote call and never succeeds (it is to end with the          *)
(* conflicting-source error).                                              *)
(***************************************************************************)
C15_ConflictingSource ==
    ({"config", "name"} \subseteq flags) =>
        /\ calls = <<>>
        /\ ret.kind # "ok"

(***************************************************************************)
(* Reading the wizard.                                                     *)
(***************************************************************************)
SixSteps ==
    <<"stepSelectRegion", "stepEnterName", "stepSelectKubernetesVersion",
      "stepSelectCNI", "stepAddNodePools", "stepSummaryAndConfirm">>

WizardEnded == wiz.state \in {"cancelled", "failed", "refused"}

\* an answer made of blanks only
IsBlank(a) == \A k \in 1..Len(a) : a[k] = " "

PaddedName == <<" ", "c", "s", "1", " ">>

(***************************************************************************)
(* C16.  The wizard's state machine (signal revision): the steps that ran  *)
(* are an initial part of the six steps in their order, the step under way *)
(* is the last one entered or the one after it, a step is followed by      *)
(* itself (a re-prompt), by the next step, or by the end of the wizard     *)
(* (cancelled, failed, refused), an ended wizard never moves again, and    *)
(* the wizard completes only from the sixth step, all six having run and   *)
(* the final confirmation having been answered yes (the key y, or enter on *)
(* the selection).                                                         *)
(***************************************************************************)
C16_Shape ==
    (impl = "signal") =>
        /\ Len(wiz.ran) <= Len(SixSteps)
        /\ \A k \in 1..Len(wiz.ran) : wiz.ran[k] = SixSteps[k]
        /\ wiz.state = "running" => wiz.step \in {Len(wiz.ran), Len(wiz.ran) + 1}
        /\ wiz.state = "running" => pc = "wizard"
        /\ WizardEnded => Done /\ ret.kind = "load" /\ wiz.step = Len(wiz.ran)
        /\ wiz.state = "completed" =>
              /\ wiz.ran = SixSteps
              /\ wiz.confirmKey \in {"y", "enter"}
              /\ pc # "wizard"

C16_Move ==
    (impl = "signal" /\ wiz' # wiz) =>
        /\ wiz.state \in {"idle", "running"}
        /\ wiz.state = "idle" => wiz'.state = "running" /\ wiz'.step = 1
        /\ wiz.state = "running" =>
              /\ wiz'.step \in {wiz.step, wiz.step + 1}
              /\ wiz'.state \in {"running", "cancelled", "failed", "refused",
                                 "completed"}
              /\ wiz'.state = "completed" =>
                    wiz.step = Len(SixSteps) /\ wiz'.step = wiz.step + 1
              /\ wiz'.state \in {"cancelled", "failed", "refused"} =>
                    wiz'.step = wiz.step
              /\ (wiz'.state = "running" /\ wiz'.step = wiz.step + 1) =>
                    wiz.step < Len(SixSteps)

C16_WizardLinear == [](C16_Shape) /\ [][C16_Move]_vars

(***************************************************************************)
(* C17.  Wizard cancellation (signal revision): once a cancel key was      *)
(* pressed at a prompt of the wizard, the wizard has ended without         *)
(* completing, the run is over, and no remote call was issued.             *)
(***************************************************************************)
C17_CancelStopsWizard ==
    (impl = "signal" /\ wiz.cancelKey) =>
        /\ wiz.state \in {"cancelled", "failed"}
        /\ Done
        /\ ret.kind = "load"
        /\ calls = <<>>

(***************************************************************************)
(* C18.  The name step (signal revision): a blank answer (empty once       *)
(* trimmed) costs exactly one re-prompt and leaves the wizard at the name  *)
(* step with no name stored; an answer that is not blank costs none,       *)
(* stores its trimmed text as the name and moves the wizard to the         *)
(* Kubernetes version step; the wizard is past the name step only after    *)
(* such an answer.                                                         *)
(***************************************************************************)
AtNameStep == wiz.state = "running" /\ SixSteps[wiz.step] = "stepEnterName"

C18_Shape ==
    (impl = "signal" /\ wiz.state = "running") =>
        IF SixSteps[wiz.step] = "stepSelectRegion"
        THEN wiz.reprompts = 0 /\ wiz.typed = <<>>
        ELSE IF AtNameStep
        THEN /\ params.Name = ""
             /\ wiz.reprompts = 0 => wiz.typed = <<>>
             /\ wiz.reprompts > 0 => Len(wiz.typed) = 1 /\ IsBlank(wiz.typed[1])
        ELSE /\ Len(wiz.typed) = 1
             /\ ~IsBlank(wiz.typed[1])
             /\ wiz.typed[1] = PaddedName => params.Name = "cs1"
             /\ params.Name # ""

C18_Move ==
    (impl = "signal" /\ wiz.state = "running" /\ wiz'.state = "running") =>
        /\ (AtNameStep /\ wiz' # wiz) =>
              IF IsBlank(wiz'.typed[1])
              THEN /\ wiz'.reprompts = wiz.reprompts + 1
                   /\ wiz'.step = wiz.step
                   /\ params' = params
              ELSE /\ wiz'.reprompts = wiz.reprompts
                   /\ SixSteps[wiz'.step] = "stepSelectKubernetesVersion"
                   /\ params'.Name # ""
        /\ ~AtNameStep => wiz'.reprompts = wiz.reprompts /\ wiz'.typed = wiz.typed

C18_NameRetry == [](C18_Shape) /\ [][C18_Move]_vars

C18_Witness ==
    /\ impl = "signal"
    /\ wiz.state = "running"
    /\ SixSteps[wiz.step] = "stepSelectKubernetesVersion"
    /\ wiz.reprompts = 2
    /\ wiz.typed = <<PaddedName>>
    /\ params.Name = "cs1"

(***************************************************************************)
(* C19.  Refusal at the final confirmation (signal revision): the answer   *)
(* no is a refusal, and after a refusal (the key n, or enter on the        *)
(* selection moved to no) the run is over with an error and no call was    *)
(* issued.                                                                 *)
(***************************************************************************)
C19_RefusalAborts ==
    (impl = "signal") =>
        /\ wiz.confirmKey = "n" => wiz.state = "refused"
        /\ wiz.state = "refused" =>
              /\ Done
              /\ ret.kind = "load"
              /\ calls = <<>>

C19_Witness ==
    /\ impl = "signal"
    /\ wiz.confirmKey = "n"
    /\ Done
    /\ ret = Outcome("load", "refused")
    /\ Len(params.SpotNodePools) + Len(params.OnDemandNodePools) >= 1

(***************************************************************************)
(* C20.  Bid price normalization: the price that validation stored has     *)
(* the form digits, point, exactly three digits.                           *)
(***************************************************************************)
ThreeDecimals(s) ==
    /\ Len(s) >= 5
    /\ s[Len(s) - 3] = "."
    /\ \A k \in 1..Len(s) : k # Len(s) - 3 => IsDigit(s[k])

C20_PriceFormat ==
    (pc = "createCloudspace") =>
        \A k \in 1..Len(params.SpotNodePools) :
            ThreeDecimals(params.SpotNodePools[k].BidPrice)

(***************************************************************************)
(* C21.  Cluster create failure: once the CreateCloudspace call has        *)
(* returned an error, no pool create call and no delete call is ever       *)
(* issued, and the run ends with the cluster create error.                 *)
(***************************************************************************)
C21_ClusterFailureAborts ==
    (Failed({"CreateCloudspace"}) # {}) =>
        /\ CallsOf(PoolCreateOps \cup DeleteOps) = {}
        /\ Len(calls) = 1
        /\ Done => ret = Outcome("createCloudspace", "")

C21_Witness ==
    /\ Done
    /\ impl = "defer"
    /\ Failed({"CreateCloudspace"}) # {}
    /\ ret = Outcome("createCloudspace", "")
    /\ Len(calls) = 1
    /\ Len(params.SpotNodePools) >= 1

(***************************************************************************)
(* C22.  Success path: a finished run in which the cloudspace create and   *)
(* the create of every requested pool were issued and succeeded (so no     *)
(* check before a create observed a cancellation) and every read-back      *)
(* succeeded ends with the re-fetched cloudspace as its result, the        *)
(* GetCloudspace being its last call, and has issued no delete call.       *)
(***************************************************************************)
C22_AllCreated ==
    /\ Succeeded({"CreateCloudspace"}) # {}
    /\ Cardinality(Succeeded(PoolCreateOps)) = PoolsRequested
    /\ \A k \in 1..Len(calls) : ~IsDelete(calls[k]) => calls[k].res = "ok"

C22_SuccessPath ==
    (Done /\ C22_AllCreated) =>
        /\ ret = Outcome("ok", "")
        /\ CallsOf(DeleteOps) = {}
        /\ calls[Len(calls)].op = "GetCloudspace"

(***************************************************************************)
(* C23.  No retries: the log never holds more than one CreateCloudspace    *)
(* call, more spot pool creates than spot pools requested, or more         *)
(* on-demand pool creates than on-demand pools requested, and a create     *)
(* call that returned an error is the last create call of the run.         *)
(***************************************************************************)
C23_NoRetries ==
    /\ Cardinality(CallsOf({"CreateCloudspace"})) <= 1
    /\ Cardinality(CallsOf({"CreateSpotNodePool"})) <= Len(params.SpotNodePools)
    /\ Cardinality(CallsOf({"CreateOnDemandNodePool"})) <= Len(params.OnDemandNodePools)
    /\ \A k \in Failed(CreateOps) : \A j \in CallsOf(CreateOps) : j <= k

\* the first of two requested spot pools failed and the run ended with one
\* cloudspace create and one pool create
C23_Witness ==
    /\ Done
    /\ Len(params.SpotNodePools) = 2
    /\ Len(params.OnDemandNodePools) = 1
    /\ Cardinality(Failed({"CreateSpotNodePool"})) = 1
    /\ Cardinality(CallsOf(CreateOps)) = 2

(***************************************************************************)
(* C24.  Cancellation is polled, not preemptive: a create call that is in  *)
(* flight when the signal handler runs is out of the handler's reach.  It  *)
(* was issued with a context that cancel() does not end, so the call runs  *)
(* to its own result and the cancellation is seen only at the next check.  *)
(***************************************************************************)
InFlight(cs) == cs # <<>> /\ cs[Len(cs)].res = "pending"

C24_PolledNotPreemptive ==
    (ctxDone /\ InFlight(callsAtSignal)) =>
        LET c == callsAtSignal[Len(callsAtSignal)]
        IN  c.op \in CreateOps => c.ctx = "background"

(***************************************************************************)
(* C25.  Unknown pool parameter: a Flags-mode run whose spot or on-demand  *)
(* key=value descriptor holds a key outside the recognized set never       *)
(* issues a remote call and does not end in success: the command fails     *)
(* before any mutation.                                                    *)
(***************************************************************************)
C25_UnknownParameterRejected ==
    (mode = "Flags" /\ input.Unknown # "none") =>
        /\ calls = <<>>
        /\ Done => ret.kind # "ok"

(***************************************************************************)
(* C26.  Bid price sent to the remote call: the pool of every              *)
(* CreateSpotNodePool call carries a bid price of the form digits, point,  *)
(* exactly three digits.                                                   *)
(***************************************************************************)
C26_PriceOnTheWire ==
    \A k \in CallsOf({"CreateSpotNodePool"}) : ThreeDecimals(calls[k].price)

(***************************************************************************)
(* C27.  The ledger records successes only: in every state the ledger      *)
(* marks the cloudspace as created only if its create call succeeded, it   *)
(* holds no more entries than pool create calls have succeeded, each       *)
(* entry naming such a pool, and the pool deletes are no more than the     *)
(* pool creates that succeeded, each deleting such a pool: a pool whose    *)
(* create call failed is not deleted.                                      *)
(***************************************************************************)
LedgerEntryCreated(e) ==
    \E k \in Succeeded(PoolCreateOps) :
        /\ calls[k].name = e.name
        /\ IsSpotCreate(calls[k]) = e.isSpot

C27_LedgerSuccessesOnly ==
    /\ createdResources.cloudspaceCreated => Succeeded({"CreateCloudspace"}) # {}
    /\ Len(createdResources.nodePoolsCreated) <= Cardinality(Succeeded(PoolCreateOps))
    /\ \A j \in 1..Len(createdResources.nodePoolsCreated) :
          LedgerEntryCreated(createdResources.nodePoolsCreated[j])
    /\ Cardinality(CallsOf(PoolDeleteOps)) <= Cardinality(Succeeded(PoolCreateOps))
    /\ \A j \in CallsOf(PoolDeleteOps) :
          \E k \in Succeeded(PoolCreateOps) : k < j /\ Target(calls[k]) = Target(calls[j])

(***************************************************************************)
(* C28.  Validation order, fail fast (signal revision, requests that did   *)
(* not come from the wizard, defaults filled in): a request that breaks a  *)
(* rule is rejected with the error of the earliest rule it breaks, in the  *)
(* order name present, region present, region in the valid set, a pool     *)
(* present, spot bid prices, desired counts of the spot and on-demand      *)
(* pools; and when the flags are rejected for holding no pool, no earlier  *)
(* rule (name, region) is broken.                                          *)
(***************************************************************************)
RuleOrder == <<"name", "region", "regionInvalid", "pools", "bidPrice", "desired">>

Broken(p, rule) ==
    IF rule = "name" THEN p.Name = ""
    ELSE IF rule = "region" THEN p.Region = ""
    ELSE IF rule = "regionInvalid" THEN p.Region \notin ValidRegions
    ELSE IF rule = "pools" THEN Len(p.SpotNodePools) + Len(p.OnDemandNodePools) = 0
    ELSE IF rule = "bidPrice"
    THEN \E k \in 1..Len(p.SpotNodePools) :
            \/ p.SpotNodePools[k].BidPrice = <<>>
            \/ ~ValidateBidPrice(p.SpotNodePools[k].BidPrice).ok
    ELSE \/ \E k \in 1..Len(p.SpotNodePools) : p.SpotNodePools[k].Desired <= 0
         \/ \E k \in 1..Len(p.OnDemandNodePools) : p.OnDemandNodePools[k].Desired <= 0

FirstBroken(p) ==
    IF \E i \in 1..Len(RuleOrder) : Broken(p, RuleOrder[i])
    THEN RuleOrder[CHOOSE i \in 1..Len(RuleOrder) :
                      /\ Broken(p, RuleOrder[i])
                      /\ \A h \in 1..(i - 1) : ~Broken(p, RuleOrder[h])]
    ELSE ""

C28_Move ==
    /\ (pc = "validate" /\ pc' # pc /\ impl = "signal" /\ ~interactive) =>
          /\ ret'.kind = "validation" => ret'.what = FirstBroken(WithDefaults(params, input))
          /\ FirstBroken(WithDefaults(params, input)) # "" =>
                ret' = Outcome("validation", FirstBroken(WithDefaults(params, input)))
    /\ (pc = "start" /\ impl = "signal" /\ ret' = Outcome("load", "noPools")) =>
          FirstBroken(WithDefaults(FlagsParams(input, uuids), input)) = "pools"

C28_ValidationOrder == [][C28_Move]_vars

(***************************************************************************)
(* C29.  The wizard enforces the region rule: the request of a completed   *)
(* wizard run of the signal revision has a region of the valid set, and so *)
(* has the request of a wizard run for which CreateCloudspace was called.  *)
(***************************************************************************)
C29_WizardRegionValid ==
    (impl = "signal" /\ interactive) =>
        /\ wiz.state = "completed" => params.Region \in ValidRegions
        /\ CallsOf({"CreateCloudspace"}) # {} => params.Region \in ValidRegions

(***************************************************************************)
(* C30.  Wizard node-pool step: every pool of a wizard request of the      *)
(* signal revision has a desired count of at least one and, a spot pool,   *)
(* the bid price the normalizer gave for a price it accepted.  A step that *)
(* turns an answer down (node count below one, or bid price rejected)      *)
(* leaves the pools as they were and stays at the node-pool step; a step   *)
(* of the node-pool step leaves the pools collected so far in place and    *)
(* appends at most one, and the wizard leaves the step for the summary     *)
(* only with a pool appended.                                              *)
(***************************************************************************)
AtPoolStep == WizardAt("stepAddNodePools")

\* the bid prices a user types, the default offered when nothing is typed
WizardPrices == {sp.BidPrice : sp \in WizardSpotSpecs} \cup {MinBidPrice}

\* what the normalizer gives for those of them it accepts
WizardAcceptedPrices ==
    {ValidateBidPrice(typed).out : typed \in {t \in WizardPrices : ValidateBidPrice(t).ok}}

IsPrefix(s, t) == Len(s) <= Len(t) /\ \A k \in 1..Len(s) : t[k] = s[k]

C30_Shape ==
    (impl = "signal" /\ interactive) =>
        /\ \A k \in 1..Len(params.SpotNodePools) :
              /\ params.SpotNodePools[k].Desired >= 1
              /\ params.SpotNodePools[k].BidPrice \in WizardAcceptedPrices
        /\ \A k \in 1..Len(params.OnDemandNodePools) :
              params.OnDemandNodePools[k].Desired >= 1
        /\ wiz.rejected # "" => wiz.step >= 5

C30_Move ==
    (impl = "signal" /\ AtPoolStep) =>
        /\ IsPrefix(params.SpotNodePools, params'.SpotNodePools)
        /\ IsPrefix(params.OnDemandNodePools, params'.OnDemandNodePools)
        /\ Len(params'.SpotNodePools) + Len(params'.OnDemandNodePools)
              <= Len(params.SpotNodePools) + Len(params.OnDemandNodePools) + 1
        /\ wiz'.rejected # wiz.rejected =>
              /\ params' = params
              /\ wiz'.step = wiz.step
              /\ wiz'.state = wiz.state
              /\ pc' = pc
        /\ wiz'.step # wiz.step => params' # params

C30_NodePoolStep == [](C30_Shape) /\ [][C30_Move]_vars

\* the wizard completed with a spot and an on-demand pool after the
\* node-pool step had turned an answer down for its bid price
C30_Witness ==
    /\ impl = "signal"
    /\ interactive
    /\ AtPoolStep
    /\ wiz.rejected = "price"
    /\ Len(params.SpotNodePools) >= 1
    /\ Len(params.OnDemandNodePools) >= 1

C30_WitnessCount ==
    /\ impl = "signal"
    /\ AtPoolStep
    /\ wiz.rejected = "count"
    /\ Len(params.SpotNodePools) + Len(params.OnDemandNodePools) >= 1

(***************************************************************************)
(* C31.  Malformed pool descriptors are surfaced: a Flags-mode run with a  *)
(* --spot-nodepool or --ondemand-nodepool value that does not parse as     *)
(* key=value pairs never issues a remote call and does not end in success, *)
(* whatever well-formed descriptors come with it.                          *)
(***************************************************************************)
C31_MalformedDescriptorRejected ==
    (mode = "Flags" /\ input.Malformed # "none") =>
        /\ calls = <<>>
        /\ Done => ret.kind # "ok"

(***************************************************************************)
(* C32.  Pool naming: in a run whose request comes from the file or the    *)
(* flags, the create call of the j-th spot pool (on-demand pool) carries   *)
(* the name the j-th spot (on-demand) descriptor supplies, when it         *)
(* supplies one.                                                           *)
(***************************************************************************)
\* the rank of the k-th call of the log among the calls of these operations
RankOf(ops, k) == Cardinality({h \in CallsOf(ops) : h <= k})

NameKept(op, given) ==
    \A k \in CallsOf({op}) :
        LET j == RankOf({op}, k)
        IN  (j <= Len(given) /\ given[j].Name # "") => calls[k].name = given[j].Name

C32_ExplicitNamesKept ==
    (mode \in {"File", "Flags"}) =>
        /\ NameKept("CreateSpotNodePool", input.Spot)
        /\ NameKept("CreateOnDemandNodePool", input.OnDemand)

(***************************************************************************)
(* The saga under fair scheduling.  RunE is a single goroutine that is     *)
(* always scheduled and every remote call returns, so a step of RunE that  *)
(* can be taken is taken eventually; the signal may or may not arrive, and *)
(* nothing is assumed of the user who answers the wizard's prompts.        *)
(***************************************************************************)
SagaProgram ==
    \/ Acquire
    \/ Validate
    \/ CreateCloudspaceCheck
    \/ CreateCloudspaceIssue
    \/ CreateCloudspaceReturn
    \/ SpotCheck
    \/ SpotIssue
    \/ SpotReturn
    \/ SpotVerified
    \/ RollbackReturn
    \/ OnDemandCheck
    \/ OnDemandIssue
    \/ OnDemandReturn
    \/ OnDemandVerified
    \/ Final
    \/ FinalReturn
    \/ FinalCheck
    \/ FinalOutput
    \/ LedgerCreateCloudspace
    \/ LedgerSpot
    \/ LedgerOnDemand
    \/ LedgerFinal
    \/ LedgerDeferred
    \/ DeferAcquire
    \/ DeferValidate
    \/ DeferCreateCloudspace
    \/ DeferSpot
    \/ DeferOnDemand
    \/ DeferFinal
    \/ DeferDeferred

SagaSpec == Init /\ [][Next]_vars /\ WF_vars(SagaProgram)

(***************************************************************************)
(* C33.  Saga termination: every run that has passed validation, whatever  *)
(* the source of its request, eventually returns with success, a failure   *)
(* or the cancellation, whatever the results of its create, read and       *)
(* delete calls; a rollback runs to its end (it does not end in a panic).  *)
(***************************************************************************)
C33_SagaTerminates == (pc = "createCloudspace") ~> (Done /\ ret.kind # "panic")

(***************************************************************************)
(* C34.  Rollback deletes use a live context: every delete call of a run,  *)
(* the ones of a rollback that a cancellation triggered included, is       *)
(* issued with a context that is not cancelled at the moment of the call.  *)
(***************************************************************************)
C34_DeletesUseLiveContext ==
    \A k \in CallsOf(DeleteOps) : calls[k].live

(***************************************************************************)
(* C35.  Rollback runs at most once per run: the cluster is the target of  *)
(* at most one delete call, and the pools of either kind are the target of *)
(* no more delete calls than there were create calls of that kind,         *)
(* whichever of the explicit cleanup and the deferred handler issued them. *)
(***************************************************************************)
C35_RollbackAtMostOnce ==
    /\ Cardinality(CallsOf({"DeleteCloudspace"})) <= 1
    /\ Cardinality(CallsOf({"DeleteSpotNodePool"}))
          <= Cardinality(CallsOf({"CreateSpotNodePool"}))
    /\ Cardinality(CallsOf({"DeleteOnDemandNodePool"}))
          <= Cardinality(CallsOf({"CreateOnDemandNodePool"}))

(***************************************************************************)
(* C36.  Validation implies the saga's price check: in a non-interactive   *)
(* run of a revision that normalizes the price again in its spot loop,     *)
(* validateBidPrice followed by getBidPrice succeeds on every price that   *)
(* validation stored, and no run that issued CreateCloudspace ends with a  *)
(* bid price error.                                                        *)
(***************************************************************************)
C36_ValidatedPricePassesSaga ==
    /\ (pc = "createCloudspace" /\ ~interactive /\ impl \in {"signal", "ledger"}) =>
          \A k \in 1..Len(params.SpotNodePools) :
              SagaBidPrice(params.SpotNodePools[k].BidPrice).ok
    /\ ~interactive =>
          ~(CallsOf({"CreateCloudspace"}) # {} /\ ret.kind = "bidPrice")

(***************************************************************************)
(* C37.  A completed wizard run yields at least one pool: once the wizard  *)
(* is past its node-pool step, and so whenever all its steps have          *)
(* finished without cancellation or error, the request it collected holds  *)
(* at least one spot or on-demand pool.                                    *)
(***************************************************************************)
PoolStepIndex == CHOOSE k \in 1..Len(WizardSteps) : WizardSteps[k] = "stepAddNodePools"

PoolsCollected == Len(params.SpotNodePools) + Len(params.OnDemandNodePools)

C37_CompletedWizardHasPool ==
    (wiz.state \in {"running", "completed"} /\ wiz.step > PoolStepIndex) =>
        PoolsCollected >= 1

\* the wizard completed with a single on-demand pool and no spot pool
C37_Witness ==
    /\ wiz.state = "completed"
    /\ PoolsCollected = 1
    /\ Len(params.OnDemandNodePools) = 1
    /\ pc = "validate"

(***************************************************************************)
(* C38.  Verification failure is rolled back: a run that ends with the     *)
(* error of a failed verification read of a pool has, after that read,     *)
(* issued a delete call for every pool whose create call succeeded, the    *)
(* one just created included, and for the cloudspace.                      *)
(***************************************************************************)
PoolGetOps == {"GetSpotNodePool", "GetOnDemandNodePool"}

DeletedAfterRead(k, read) ==
    \E j \in (read + 1)..Len(calls) :
        /\ calls[j].op = DeleteOpOf(calls[k].op)
        /\ calls[j].name = calls[k].name

C38_VerifyFailureRolledBack ==
    (Done /\ ret.kind = "verifyPool") =>
        \E read \in Failed(PoolGetOps) :
            \A k \in Succeeded(CreateOps) : DeletedAfterRead(k, read)

(***************************************************************************)
(* C39.  Rollback targets the created cluster: every DeleteCloudspace call *)
(* carries, in the order the API takes them, the organization and the      *)
(* cluster name of a CreateCloudspace call of this run that succeeded.     *)
(***************************************************************************)
C39_RollbackTargetsCreatedCluster ==
    \A d \in CallsOf({"DeleteCloudspace"}) :
        \E c \in Succeeded({"CreateCloudspace"}) :
            /\ c < d
            /\ calls[d].org = calls[c].org
            /\ calls[d].name = calls[c].name

=============================================================================
